---- MODULE Spec2Model ----
(***************************************************************************)
(* Stockly backend: the /analyze request pipeline of src/server.js (the    *)
(* richer variant) and src/unnamed/part_000 (the simpler variant).         *)
(*                                                                         *)
(* A request is followed from the authentication middleware through ticker *)
(* classification, the adapter calls, scoring, the language-model call and *)
(* section parsing to the response.  Every await of the handler is a pair  *)
(* of actions: the call is issued, and later settles with a payload the    *)
(* provider chooses.                                                       *)
(*                                                                         *)
(* Strings are sequences of one-character strings, so that toUpperCase,    *)
(* toLowerCase, includes, split and the section regex are computed.        *)
(***************************************************************************)
EXTENDS Integers, Sequences, FiniteSets, TLC

VARIABLES
  signins,    \* the /auth/google requests: position, row selected, response
  users,      \* rows of the users table
  env,        \* which API keys the process environment configures
  variant,    \* which of the two source files serves the request
  req,        \* the request body: token, ticker, isCrypto
  pc,         \* position of the request in its handler
  path,       \* classification of the request
  call,       \* state of every outbound call of the request
  got,        \* the payload the call that settled last delivered
  bundle,     \* the data slices collected so far
  sentiment,  \* result of analyzeNewsSentiment
  score,      \* interest score
  ai,         \* language-model analysis text per call
  sections,   \* parsed sections per call
  trace,      \* order in which calls were issued and settled and stages ran
  res         \* responses sent for the request

vars == << signins, users, env, variant, req, pc, path, call, got, bundle, sentiment,
           score, ai, sections, trace, res >>

----------------------------------------------------------------------------
(* Text *)

UpperAlpha == <<"A","B","C","D","E","F","G","H","I","J","K","L","M","N","O","P","Q","R","S","T","U","V","W","X","Y","Z">>

LowerAlpha == <<"a","b","c","d","e","f","g","h","i","j","k","l","m","n","o","p","q","r","s","t","u","v","w","x","y","z">>

AlphaIndex(alpha, c) ==
  IF \E i \in 1..Len(alpha) : alpha[i] = c
    THEN CHOOSE i \in 1..Len(alpha) : alpha[i] = c
    ELSE 0

toUpperCase(s) ==
  [i \in 1..Len(s) |->
     IF AlphaIndex(LowerAlpha, s[i]) = 0 THEN s[i]
     ELSE UpperAlpha[AlphaIndex(LowerAlpha, s[i])]]

toLowerCase(s) ==
  [i \in 1..Len(s) |->
     IF AlphaIndex(UpperAlpha, s[i]) = 0 THEN s[i]
     ELSE LowerAlpha[AlphaIndex(UpperAlpha, s[i])]]

includes(text, word) ==
  \E i \in 0..(Len(text) - Len(word)) :
    \A j \in 1..Len(word) : text[i + j] = word[j]

Range(seq) == {seq[i] : i \in 1..Len(seq)}

----------------------------------------------------------------------------
(* Fixed tables of the program *)

knownCryptoTickers ==
  << <<"B","T","C">>, <<"E","T","H">>, <<"D","O","G","E">>, <<"S","O","L">>,
     <<"A","D","A">>, <<"X","R","P">>, <<"D","O","T">>, <<"M","A","T","I","C">>,
     <<"A","V","A","X">>, <<"L","I","N","K">>, <<"U","N","I">>, <<"L","T","C">>,
     <<"B","C","H">>, <<"S","H","I","B">>, <<"A","T","O","M">>, <<"X","L","M">>,
     <<"A","L","G","O">>, <<"V","E","T">>, <<"P","E","P","E">>, <<"A","R","B">>,
     <<"O","P">>, <<"R","N","D","R">>, <<"A","A","V","E">>, <<"M","K","R">>,
     <<"S","N","X">> >>

strongPositive ==
  << <<"s","u","r","g","e">>, <<"s","o","a","r">>, <<"j","u","m","p">>,
     <<"r","a","l","l","y">>, <<"b","e","a","t">>, <<"e","x","c","e","e","d">>,
     <<"u","p","g","r","a","d","e">>, <<"b","r","e","a","k","t","h","r","o","u","g","h">>, <<"r","e","c","o","r","d">>,
     <<"b","e","s","t">> >>

moderatePositive ==
  << <<"g","r","o","w","t","h">>, <<"g","a","i","n">>, <<"r","i","s","e">>,
     <<"u","p">>, <<"p","r","o","f","i","t">>, <<"s","t","r","o","n","g">>,
     <<"i","n","c","r","e","a","s","e">>, <<"p","o","s","i","t","i","v","e">>, <<"s","u","c","c","e","s","s">>,
     <<"i","m","p","r","o","v","e">> >>

strongNegative ==
  << <<"p","l","u","n","g","e">>, <<"c","r","a","s","h">>, <<"c","o","l","l","a","p","s","e">>,
     <<"m","i","s","s">>, <<"d","o","w","n","g","r","a","d","e">>, <<"l","o","s","s">>,
     <<"w","o","r","s","t">>, <<"f","a","i","l">>, <<"c","u","t">> >>

moderateNegative ==
  << <<"f","a","l","l">>, <<"d","r","o","p">>, <<"d","e","c","l","i","n","e">>,
     <<"d","o","w","n">>, <<"w","e","a","k">>, <<"c","o","n","c","e","r","n">>,
     <<"r","i","s","k">>, <<"s","t","r","u","g","g","l","e">>, <<"p","r","e","s","s","u","r","e">> >>

stockKeywords ==
  << <<"s","t","o","c","k">>, <<"s","h","a","r","e","s">>, <<"t","r","a","d","i","n","g">>,
     <<"i","n","v","e","s","t","o","r">>, <<"m","a","r","k","e","t">>, <<"p","r","i","c","e">>,
     <<"e","a","r","n","i","n","g","s">>, <<"r","e","v","e","n","u","e">>, <<"q","u","a","r","t","e","r">>,
     <<"a","n","a","l","y","s","t">>, <<"u","p","g","r","a","d","e">>, <<"d","o","w","n","g","r","a","d","e">>,
     <<"w","a","l","l"," ","s","t","r","e","e","t">>, <<"p","r","o","f","i","t">>, <<"l","o","s","s">> >>

\* tickerToName[ticker] || ticker: the lookup is by the ticker as sent
tickerToName ==
  << << <<"A","A","P","L">>, <<"A","p","p","l","e">> >>,
     << <<"T","S","L","A">>, <<"T","e","s","l","a">> >>,
     << <<"M","S","F","T">>, <<"M","i","c","r","o","s","o","f","t">> >>,
     << <<"G","O","O","G","L">>, <<"G","o","o","g","l","e"," ","A","l","p","h","a","b","e","t">> >>,
     << <<"A","M","Z","N">>, <<"A","m","a","z","o","n">> >>,
     << <<"A","M","D">>, <<"A","M","D"," ","A","d","v","a","n","c","e","d"," ","M","i","c","r","o"," ","D","e","v","i","c","e","s">> >>,
     << <<"N","V","D","A">>, <<"N","V","I","D","I","A">> >>,
     << <<"M","E","T","A">>, <<"M","e","t","a"," ","F","a","c","e","b","o","o","k">> >>,
     << <<"N","F","L","X">>, <<"N","e","t","f","l","i","x">> >>,
     << <<"I","N","T","C">>, <<"I","n","t","e","l">> >> >>

----------------------------------------------------------------------------
(* Numbers.  A percent change is kept in hundredths, as toFixed(2) leaves  *)
(* it; null and NaN are values of their own.                               *)

NullNum == [null |-> TRUE, nan |-> FALSE, h |-> 0]

NaN == [null |-> FALSE, nan |-> TRUE, h |-> 0]

Hundredths(h) == [null |-> FALSE, nan |-> FALSE, h |-> h]

\* pct >= k, false for NaN
GtOrEqual(pct, k) == ~pct.nan /\ pct.h >= 100 * k

\* pct > k, false for NaN
Gt(pct, k) == ~pct.nan /\ pct.h > 100 * k

\* the score left as it is
NoClamp(lo, hi, x) == x

\* Math.max(lo, Math.min(hi, x))
Clamp(lo, hi, x) == IF x < lo THEN lo ELSE IF x > hi THEN hi ELSE x

\* Math.round(num / den) for den > 0: halves round up
MathRound(num, den) == (2 * num + den) \div (2 * den)

\* slice(1, n): the first element is lost
TakeFromSecond(seq, n) == SubSeq(seq, 2, IF Len(seq) < n THEN Len(seq) ELSE n)

Take(seq, n) == SubSeq(seq, 1, IF Len(seq) < n THEN Len(seq) ELSE n)

----------------------------------------------------------------------------
(* analyzeNewsSentiment *)

WordHits(text, words) ==
  Cardinality({i \in 1..Len(words) : includes(text, words[i])})

\* (article.title + ' ' + (article.description || '')).toLowerCase()
ArticleText(article) ==
  toLowerCase(article.title \o <<" ">> \o
              (IF "description" \in DOMAIN article THEN article.description ELSE <<>>))

RECURSIVE Accumulate(_, _, _)
Accumulate(news, ticker, i) ==
  IF i > Len(news) THEN [sentimentScore |-> 0, relevanceScore |-> 0]
  ELSE LET rest == Accumulate(news, ticker, i + 1)
           text == ArticleText(news[i])
       IN IF includes(text, toLowerCase(ticker))
            THEN [sentimentScore |->
                    rest.sentimentScore
                    + 15 * WordHits(text, strongPositive)
                    - 15 * WordHits(text, strongNegative)
                    + 5 * WordHits(text, moderatePositive)
                    - 5 * WordHits(text, moderateNegative),
                  relevanceScore |-> rest.relevanceScore + 20]
            ELSE [sentimentScore |-> rest.sentimentScore,
                  relevanceScore |-> rest.relevanceScore - 10]

\* the thresholds taken as strict: score > 70, score > 60, ...
SentimentLabelStrict(num, n) ==
  IF num > 70 * n THEN "Positive"
  ELSE IF num > 60 * n THEN "Slightly Positive"
  ELSE IF num > 55 * n THEN "Neutral-Positive"
  ELSE IF num > 45 * n THEN "Neutral"
  ELSE IF num > 40 * n THEN "Neutral-Negative"
  ELSE IF num > 30 * n THEN "Slightly Negative"
  ELSE "Negative"

\* the label is chosen on the unrounded score num / n
SentimentLabel(num, n) ==
  IF num >= 70 * n THEN "Positive"
  ELSE IF num >= 60 * n THEN "Slightly Positive"
  ELSE IF num >= 55 * n THEN "Neutral-Positive"
  ELSE IF num >= 45 * n THEN "Neutral"
  ELSE IF num >= 40 * n THEN "Neutral-Negative"
  ELSE IF num >= 30 * n THEN "Slightly Negative"
  ELSE "Negative"

\* no early return: an empty list counted as one article that does not
\* mention the ticker
analyzeNewsSentimentNoDefault(news, ticker) ==
  LET acc == Accumulate(news, ticker, 1)
      n == IF Len(news) = 0 THEN 1 ELSE Len(news)
      num == Clamp(0, 100 * n,
                   (50 + acc.sentimentScore) * n
                   + (IF Len(news) = 0 THEN -10 ELSE acc.relevanceScore))
  IN [present |-> TRUE, score |-> MathRound(num, n),
      label |-> SentimentLabel(num, n)]

analyzeNewsSentiment(news, ticker) ==
  IF Len(news) = 0 THEN [present |-> TRUE, score |-> 50, label |-> "Neutral"]
  ELSE LET acc == Accumulate(news, ticker, 1)
           n == Len(news)
           num == Clamp(0, 100 * n,
                        (50 + acc.sentimentScore) * n + acc.relevanceScore)
       IN [present |-> TRUE, score |-> MathRound(num, n),
           label |-> SentimentLabel(num, n)]

----------------------------------------------------------------------------
(* Interest score *)

\* the size of the move: Math.abs(parseFloat(changePct))
PctMagnitude(changePct) ==
  IF changePct.null THEN Hundredths(0)
  ELSE IF changePct.nan THEN changePct
  ELSE Hundredths(IF changePct.h < 0 THEN -changePct.h ELSE changePct.h)

PctOf(changePct) == IF changePct.null THEN Hundredths(0) ELSE changePct

\* the bands closed at their lower end: pct >= 10, pct >= 5, ...
EquityLadderInclusive(pct) ==
  IF ~pct.nan /\ pct.h >= 1000 THEN 20
  ELSE IF ~pct.nan /\ pct.h >= 500 THEN 15
  ELSE IF ~pct.nan /\ pct.h >= 200 THEN 10
  ELSE IF ~pct.nan /\ pct.h >= 0 THEN 5
  ELSE IF ~pct.nan /\ pct.h >= -200 THEN -5
  ELSE IF ~pct.nan /\ pct.h >= -500 THEN -10
  ELSE IF ~pct.nan /\ pct.h >= -1000 THEN -15
  ELSE -20

EquityLadder(pct) ==
  IF Gt(pct, 10) THEN 20
  ELSE IF Gt(pct, 5) THEN 15
  ELSE IF Gt(pct, 2) THEN 10
  ELSE IF Gt(pct, 0) THEN 5
  ELSE IF Gt(pct, -2) THEN -5
  ELSE IF Gt(pct, -5) THEN -10
  ELSE IF Gt(pct, -10) THEN -15
  ELSE -20

\* the 8-band ladder of the equity path
CryptoLadderEightBands(pct) == EquityLadder(pct)

CryptoLadder(pct) ==
  IF Gt(pct, 20) THEN 25
  ELSE IF Gt(pct, 10) THEN 20
  ELSE IF Gt(pct, 5) THEN 15
  ELSE IF Gt(pct, 2) THEN 10
  ELSE IF Gt(pct, 0) THEN 5
  ELSE IF Gt(pct, -2) THEN -5
  ELSE IF Gt(pct, -5) THEN -10
  ELSE IF Gt(pct, -10) THEN -15
  ELSE IF Gt(pct, -20) THEN -20
  ELSE -25

\* ten points for every article
NewsBonusPerArticle(n) == 10 * n

NewsBonus(n) ==
  IF n >= 3 THEN 15 ELSE IF n >= 2 THEN 10 ELSE IF n >= 1 THEN 5 ELSE 0

\* score += (sentiment.score - 50) / 5, then Math.round, then the clamp
EquityInterestScore(changePct, news, sent) ==
  Clamp(0, 100,
        MathRound(5 * (50 + EquityLadder(PctOf(changePct)) + NewsBonus(Len(news)))
                  + sent.score - 50, 5))

CryptoInterestScore(changePct, news) ==
  Clamp(0, 100,
        MathRound(50 + CryptoLadder(PctOf(changePct)) + NewsBonus(Len(news)), 1))

\* the interest level shown with the crypto score
interestLevel(s) ==
  IF s >= 75 THEN "High Market Interest"
  ELSE IF s >= 60 THEN "Elevated Interest"
  ELSE IF s >= 40 THEN "Neutral Activity"
  ELSE IF s >= 25 THEN "Below Average Interest"
  ELSE "Low Market Interest"

----------------------------------------------------------------------------
(* News relevance filter of the equity path *)

companyNameOf(ticker) ==
  IF \E i \in 1..Len(tickerToName) : tickerToName[i][1] = ticker
    THEN tickerToName[CHOOSE i \in 1..Len(tickerToName) : tickerToName[i][1] = ticker][2]
    ELSE ticker

mentionsCompany(a, ticker) ==
  LET title == toLowerCase(a.title)
      name == toLowerCase(companyNameOf(ticker))
  IN \/ includes(title, toLowerCase(ticker))
     \/ \E i \in 1..Len(name) :
          /\ i = 1 \/ name[i - 1] = " "
          /\ \E j \in (i + 3)..Len(name) :
               /\ j = Len(name) \/ name[j + 1] = " "
               /\ " " \notin Range(SubSeq(name, i, j))
               /\ includes(title, SubSeq(name, i, j))

\* the keywords looked for in the title only
hasStockKeywordsTitleOnly(a) ==
  \E k \in Range(stockKeywords) : includes(toLowerCase(a.title), k)

hasStockKeywords(a) ==
  LET fullText == toLowerCase(a.title) \o <<" ">> \o toLowerCase(a.description)
  IN \E k \in Range(stockKeywords) : includes(fullText, k)

\* a.title.toLowerCase() throws on an article without a title
FilterThrows(articles) == \E i \in 1..Len(articles) : articles[i].titleless

relevantArticles(articles, ticker) ==
  SelectSeq(articles, LAMBDA a : mentionsCompany(a, ticker) /\ hasStockKeywords(a))

\* .map(...) without the slice
NewsItemsUncapped(articles) ==
  [i \in 1..Len(articles) |-> [title |-> articles[i].title]]

\* .slice(0, 3).map(a => ({ title, source, time, url }))
NewsItems(articles) ==
  [i \in 1..Len(Take(articles, 3)) |-> [title |-> articles[i].title]]

----------------------------------------------------------------------------
(* Social sentiment *)

CountLabel(messages, label) ==
  Cardinality({i \in 1..Len(messages) : messages[i] = label})

socialSentimentOf(allMessages) ==
  LET messages == Take(allMessages, 20)
      bullishCount == CountLabel(messages, "Bullish")
      bearishCount == CountLabel(messages, "Bearish")
      totalSentiment == bullishCount + bearishCount
      bullishPct == IF totalSentiment > 0
                      THEN MathRound(bullishCount * 100, totalSentiment)
                      ELSE 50
  IN [present |-> TRUE,
      bullishPct |-> bullishPct,
      bearishPct |-> 100 - bullishPct,
      volume |-> Len(messages),
      sentiment |-> IF bullishPct > 60 THEN "Bullish"
                    ELSE IF bullishPct < 40 THEN "Bearish" ELSE "Neutral"]

----------------------------------------------------------------------------
(* Insider filings *)

Absent == [present |-> FALSE]

insiderType(title) ==
  LET lower == toLowerCase(title)
  IN
    IF \/ includes(lower, <<"s","a","l","e">>)
       \/ includes(lower, <<"s","e","l","l">>)
       \/ includes(lower, <<"d","i","s","p","o","s","e","d">>)
      THEN "SELL"
    ELSE IF \/ includes(lower, <<"p","u","r","c","h","a","s","e">>)
            \/ includes(lower, <<"b","u","y">>)
            \/ includes(lower, <<"a","c","q","u","i","r","e","d">>)
      THEN "BUY"
    ELSE "OTHER"

\* the same keywords tested from Officer up to CEO
insiderRoleReversed(title) ==
  LET lower == toLowerCase(title)
  IN
    IF includes(lower, <<"o","f","f","i","c","e","r">>) THEN "Officer"
    ELSE IF includes(lower, <<"p","r","e","s","i","d","e","n","t">>) THEN "President"
    ELSE IF includes(lower, <<"d","i","r","e","c","t","o","r">>) THEN "Director"
    ELSE IF includes(lower, <<"c","o","o">>) \/ includes(lower, <<"c","h","i","e","f"," ","o","p","e","r","a","t","i","n","g">>)
      THEN "COO"
    ELSE IF includes(lower, <<"c","f","o">>) \/ includes(lower, <<"c","h","i","e","f"," ","f","i","n","a","n","c","i","a","l">>)
      THEN "CFO"
    ELSE IF includes(lower, <<"c","e","o">>) \/ includes(lower, <<"c","h","i","e","f"," ","e","x","e","c","u","t","i","v","e">>)
      THEN "CEO"
    ELSE "Insider"

insiderRole(title) ==
  LET lower == toLowerCase(title)
  IN
    IF includes(lower, <<"c","e","o">>) \/ includes(lower, <<"c","h","i","e","f"," ","e","x","e","c","u","t","i","v","e">>)
      THEN "CEO"
    ELSE IF includes(lower, <<"c","f","o">>) \/ includes(lower, <<"c","h","i","e","f"," ","f","i","n","a","n","c","i","a","l">>)
      THEN "CFO"
    ELSE IF includes(lower, <<"c","o","o">>) \/ includes(lower, <<"c","h","i","e","f"," ","o","p","e","r","a","t","i","n","g">>)
      THEN "COO"
    ELSE IF includes(lower, <<"d","i","r","e","c","t","o","r">>) THEN "Director"
    ELSE IF includes(lower, <<"p","r","e","s","i","d","e","n","t">>) THEN "President"
    ELSE IF includes(lower, <<"o","f","f","i","c","e","r">>) THEN "Officer"
    ELSE "Insider"

\* the filings of the last 90 days, in feed order
insiderTransactions(entries) ==
  LET recent == SelectSeq(entries, LAMBDA e : e.daysAgo <= 90)
  IN [i \in 1..Len(recent) |->
        [role |-> insiderRole(recent[i].title),
         type |-> insiderType(recent[i].title),
         daysAgo |-> recent[i].daysAgo,
         title |-> Take(recent[i].title, 100)]]

insiderDataOf(entries) ==
  LET transactions == insiderTransactions(entries)
      recentBuys == Len(SelectSeq(transactions, LAMBDA t : t.type = "BUY"))
      recentSells == Len(SelectSeq(transactions, LAMBDA t : t.type = "SELL"))
      netFlow == recentBuys - recentSells
      relevantTransactions ==
        SelectSeq(transactions, LAMBDA t : t.type = "BUY" \/ t.type = "SELL")
  IN IF Len(relevantTransactions) > 0
       THEN [present |-> TRUE,
             transactions |-> Take(relevantTransactions, 5),
             totalBuys |-> recentBuys,
             totalSells |-> recentSells,
             netFlow |-> netFlow,
             sentiment |-> IF netFlow > 0 THEN "Bullish"
                           ELSE IF netFlow < 0 THEN "Bearish" ELSE "Neutral"]
       ELSE Absent

----------------------------------------------------------------------------
(* Section parser.                                                          *)
(*   sectionRegex = /(\d+\.\s+[A-Z\s]+)\n([\s\S]*?)(?=\d+\.\s+[A-Z\s]+|$)/g  *)
(* and the fallback text.split(/\d+\.\s+/).  Positions are 1-based; an end  *)
(* of 0 means no match.                                                     *)

IsDigit(c) == c \in {"0", "1", "2", "3", "4", "5", "6", "7", "8", "9"}

IsSpace(c) == c \in {" ", "\n", "\t"}

IsTitleChar(c) == IsSpace(c) \/ AlphaIndex(UpperAlpha, c) # 0

\* last position of the run of digits that starts at i (i - 1 when empty)
DigitsEnd(t, i) ==
  CHOOSE k \in (i - 1)..Len(t) :
    /\ \A j \in i..k : IsDigit(t[j])
    /\ k = Len(t) \/ ~IsDigit(t[k + 1])

\* last position of the run of white space that starts at i
SpaceEnd(t, i) ==
  CHOOSE k \in (i - 1)..Len(t) :
    /\ \A j \in i..k : IsSpace(t[j])
    /\ k = Len(t) \/ ~IsSpace(t[k + 1])

\* \d+\.\s+ matched at i: the position of its last character
NumPrefixEnd(t, i) ==
  LET k == DigitsEnd(t, i)
  IN IF /\ k >= i
        /\ k + 2 <= Len(t)
        /\ t[k + 1] = "."
        /\ IsSpace(t[k + 2])
       THEN SpaceEnd(t, k + 2)
       ELSE 0

\* the lookahead \d+\.\s+[A-Z\s]+ matches at i
HeaderAt(t, i) ==
  LET k == DigitsEnd(t, i)
  IN /\ k >= i
     /\ k + 3 <= Len(t)
     /\ t[k + 1] = "."
     /\ IsSpace(t[k + 2])
     /\ IsTitleChar(t[k + 3])

\* (\d+\.\s+[A-Z\s]+)\n matched at i: the position of the \n, the last one
\* the greedy title run can give back
TitleEnd(t, i) ==
  LET k == DigitsEnd(t, i)
      ends == { e \in (k + 4)..Len(t) :
                  /\ t[e] = "\n"
                  /\ \A j \in (k + 2)..(e - 1) : IsTitleChar(t[j]) }
  IN IF HeaderAt(t, i) /\ ends # {}
       THEN CHOOSE e \in ends : \A f \in ends : f <= e
       ELSE 0

\* end of the lazy body: the first position after the title line where the
\* lookahead holds, Len(t) + 1 for the end of the text
BodyEnd(t, e) ==
  CHOOSE b \in (e + 1)..(Len(t) + 1) :
    /\ b = Len(t) + 1 \/ HeaderAt(t, b)
    /\ \A c \in (e + 1)..(b - 1) : ~HeaderAt(t, c)

Trim(s) ==
  IF \A i \in 1..Len(s) : IsSpace(s[i]) THEN <<>>
  ELSE SubSeq(s,
              CHOOSE i \in 1..Len(s) :
                ~IsSpace(s[i]) /\ \A j \in 1..(i - 1) : IsSpace(s[j]),
              CHOOSE i \in 1..Len(s) :
                ~IsSpace(s[i]) /\ \A j \in (i + 1)..Len(s) : IsSpace(s[j]))

\* .replace(/^\d+\.\s+/, '')
StripNumPrefix(s) ==
  IF NumPrefixEnd(s, 1) = 0 THEN s ELSE SubSeq(s, NumPrefixEnd(s, 1) + 1, Len(s))

\* the while loop over sectionRegex.exec, from lastIndex = from - 1
RECURSIVE ExecAll(_, _)
ExecAll(t, from) ==
  IF \A i \in from..Len(t) : TitleEnd(t, i) = 0 THEN <<>>
  ELSE LET i == CHOOSE i \in from..Len(t) :
                  TitleEnd(t, i) # 0 /\ \A j \in from..(i - 1) : TitleEnd(t, j) = 0
           e == TitleEnd(t, i)
           b == BodyEnd(t, e)
       IN << [title |-> StripNumPrefix(Trim(SubSeq(t, i, e - 1))),
              content |-> Trim(SubSeq(t, e + 1, b - 1))] >>
          \o ExecAll(t, b)

\* text.split(/\d+\.\s+/)
RECURSIVE Split(_, _)
Split(t, from) ==
  IF \A i \in from..Len(t) : NumPrefixEnd(t, i) = 0
    THEN << SubSeq(t, from, Len(t)) >>
  ELSE LET i == CHOOSE i \in from..Len(t) :
                  NumPrefixEnd(t, i) # 0
                  /\ \A j \in from..(i - 1) : NumPrefixEnd(t, j) = 0
       IN << SubSeq(t, from, i - 1) >> \o Split(t, NumPrefixEnd(t, i) + 1)

MarketTitles ==
  << <<"M","A","R","K","E","T"," ","C","O","N","T","E","X","T">>,
     <<"K","E","Y"," ","W","A","T","C","H","P","O","I","N","T","S">>,
     <<"R","I","S","K"," ","C","O","N","S","I","D","E","R","A","T","I","O","N","S">>,
     <<"R","E","S","E","A","R","C","H"," ","C","H","E","C","K","L","I","S","T">> >>

SimplifiedTitles ==
  << <<"W","H","A","T"," ","T","H","E","Y"," ","D","O">>,
     <<"G","O","O","D"," ","S","I","G","N","S">>,
     <<"W","A","R","N","I","N","G"," ","S","I","G","N","S">> >>

DetailedTitles ==
  << <<"B","U","S","I","N","E","S","S"," ","M","O","D","E","L">>,
     <<"K","E","Y"," ","R","E","S","E","A","R","C","H"," ","Q","U","E","S","T","I","O","N","S">>,
     <<"R","I","S","K"," ","F","A","C","T","O","R","S">> >>

\* the fallback taken only with more parts than titles
parseSectionsStrict(text, titles) ==
  IF Len(ExecAll(text, 1)) # 0 THEN ExecAll(text, 1)
  ELSE LET parts == SelectSeq(Split(text, 1), LAMBDA q : Trim(q) # <<>>)
       IN IF Len(parts) > Len(titles)
            THEN [i \in 1..Len(titles) |-> [title |-> titles[i], content |-> parts[i]]]
            ELSE <<>>

\* the parser of each prompt variant; the fixed titles are kept as labels
parseSections(text, titles) ==
  IF Len(ExecAll(text, 1)) # 0 THEN ExecAll(text, 1)
  ELSE LET parts == SelectSeq(Split(text, 1), LAMBDA q : Trim(q) # <<>>)
       IN IF Len(parts) >= Len(titles)
            THEN [i \in 1..Len(titles) |-> [title |-> titles[i], content |-> parts[i]]]
            ELSE <<>>

----------------------------------------------------------------------------
(* Request inputs *)

Str(s) == [type |-> "string", s |-> s]

NumberValue(s) == [type |-> "number", s |-> s]

Undefined == [type |-> "undefined", s |-> <<>>]

\* !v of JavaScript for the values a JSON body can carry here
Falsy(v) ==
  \/ v.type = "undefined"
  \/ v.type = "string" /\ v.s = <<>>
  \/ v.type = "number" /\ v.s = <<"0">>

TickerInputs ==
  { Undefined, Str(<<>>), NumberValue(<<"7">>),
    Str(<<"A","A","P","L">>), Str(<<"b","t","c">>) }

HintInputs == {"true", "false", "null"}

TokenInputs == {"", "tok1", "bogus"}

Calls ==
  { "overview", "quote", "analyst", "insider", "social", "news", "news2",
    "price", "cquote", "llm", "llm_simplified", "llm_detailed" }

NoPayload == [of |-> "none", kind |-> "none"]

Ev(ev, what) == [ev |-> ev, what |-> what]

Init ==
  /\ signins = <<>>
  /\ users = {[id |-> 1, email |-> "a@example.com", auth_token |-> "tok1",
               last_login |-> 0]}
  /\ env \in [NEWS_KEY : BOOLEAN, PRICE_KEY : BOOLEAN, OPENROUTER_KEY : BOOLEAN]
  /\ variant \in {"server", "part_000"}
  /\ req \in [token : TokenInputs, ticker : TickerInputs, isCrypto : HintInputs]
  /\ pc = "auth"
  /\ path = "none"
  /\ call = [c \in Calls |-> "idle"]
  /\ got = NoPayload
  /\ bundle = [overview |-> Absent, quote |-> Absent, analystRatings |-> Absent,
               insiderData |-> Absent, socialSentiment |-> Absent,
               price |-> Absent, news |-> <<>>]
  /\ sentiment = Absent
  /\ score = Absent
  /\ ai = <<>>
  /\ sections = <<>>
  /\ trace = <<>>
  /\ res = <<>>

----------------------------------------------------------------------------
(* Responses *)

\* the handler returns without sending anything
ReturnSilently(status, body) ==
  /\ res' = res
  /\ pc' = "done"

Respond(status, body) ==
  /\ res' = Append(res, [status |-> status, body |-> body])
  /\ pc' = "done"

\* the catch blocks of the two handlers: res.json({ result: <static markup> })
CatchStatus == 200

\* an error status from the catch block instead
CatchRespondError(handler) == Respond(500, "Analysis failed")

CatchRespond(handler) ==
  Respond(CatchStatus, IF handler = "crypto" THEN "crypto-unavailable" ELSE "unavailable")

----------------------------------------------------------------------------
(* authenticateUser *)

\* a middleware that checks for a token and calls next() for any
AuthenticateAnyToken ==
  /\ pc = "auth"
  /\ IF req.token = ""
       THEN Respond(401, "Authentication required")
       ELSE pc' = "handler" /\ res' = res
  /\ UNCHANGED << signins, users, env, variant, req, path, call, got, bundle, sentiment,
                  score, ai, sections, trace >>

Authenticate ==
  /\ pc = "auth"
  /\ IF req.token = ""
       THEN Respond(401, "Authentication required")
       ELSE \/ /\ {u \in users : u.auth_token = req.token} = {}
               /\ Respond(401, "Invalid token")
            \/ /\ {u \in users : u.auth_token = req.token} # {}
               /\ pc' = "handler"
               /\ res' = res
            \/ Respond(500, "Authentication failed")
  /\ UNCHANGED << signins, users, env, variant, req, path, call, got, bundle, sentiment,
                  score, ai, sections, trace >>

----------------------------------------------------------------------------
(* app.post('/analyze'): ticker check and classification *)

Truthy(hint) == hint = "true"

\* the membership test on the ticker as sent
detectAsCryptoCaseSensitive(ticker, isCrypto) ==
  Truthy(isCrypto) \/ ticker \in Range(knownCryptoTickers)

detectAsCrypto(ticker, isCrypto) ==
  Truthy(isCrypto) \/ toUpperCase(ticker) \in Range(knownCryptoTickers)

FirstEquityStep == IF variant = "server" THEN "overview" ELSE "price"

AnalyzeEntry ==
  /\ pc = "handler"
  /\ IF Falsy(req.ticker)
       THEN Respond(400, "Missing ticker") /\ UNCHANGED << path, trace >>
     ELSE IF req.ticker.type # "string"
       \* ticker.toUpperCase is not a function: TypeError inside the try
       THEN IF Truthy(req.isCrypto)
              THEN /\ path' = "crypto"
                   /\ trace' = Append(trace, Ev("stage", "classify"))
                   /\ CatchRespond("crypto")
              ELSE CatchRespond("equity") /\ UNCHANGED << path, trace >>
     ELSE /\ path' = IF detectAsCrypto(req.ticker.s, req.isCrypto)
                       THEN "crypto" ELSE "equity"
          /\ trace' = Append(trace, Ev("stage", "classify"))
          /\ pc' = IF detectAsCrypto(req.ticker.s, req.isCrypto)
                     THEN "cquote" ELSE FirstEquityStep
          /\ res' = res
  /\ UNCHANGED << signins, users, env, variant, req, call, got, bundle, sentiment,
                  score, ai, sections >>

----------------------------------------------------------------------------
(* Outbound calls.  A call is issued by the handler and settles later with *)
(* a payload chosen by the provider; "throw" stands for a rejected fetch   *)
(* or a body that response.json() cannot decode.                           *)

MaxFilings == 1

MaxMsgs == 1

MaxArticles == 1

SeqsUpTo(S, n) == UNION {[1..k -> S] : k \in 0..n}

Throw == [kind |-> "throw"]

Issue(c) ==
  /\ call' = [call EXCEPT ![c] = "inflight"]
  /\ trace' = Append(trace, Ev("issue", c))

\* status: "ok" data delivered, "nodata" a well-formed answer with nothing
\* to report, "failed" a throw or a payload without the expected fields
Settle(c, status, payload) ==
  /\ call' = [call EXCEPT ![c] = status]
  /\ trace' = Append(trace, Ev("settle", c))
  /\ got' = [of |-> c, p |-> payload]

Ticker == req.ticker.s

----------------------------------------------------------------------------
(* Equity path of src/server.js: company overview *)

OverviewPayloads ==
  { Throw,
    [kind |-> "json", Symbol |-> FALSE, Description |-> FALSE,
     Sector |-> FALSE, Industry |-> FALSE],
    [kind |-> "json", Symbol |-> TRUE, Description |-> TRUE,
     Sector |-> TRUE, Industry |-> TRUE] }

IssueOverview ==
  /\ pc = "overview"
  /\ IF env.PRICE_KEY
       THEN Issue("overview") /\ pc' = "await_overview"
       ELSE pc' = "quote" /\ UNCHANGED << call, trace >>
  /\ UNCHANGED << signins, users, env, variant, req, path, got, bundle, sentiment,
                  score, ai, sections, res >>

SettleOverview ==
  /\ pc = "await_overview"
  /\ \E p \in OverviewPayloads :
       IF p.kind = "json" /\ p.Symbol
         THEN /\ Settle("overview", "ok", p)
              /\ bundle' = [bundle EXCEPT !.overview =
                              [present |-> TRUE,
                               companyDescription |-> p.Description,
                               companySector |-> p.Sector,
                               companyIndustry |-> p.Industry]]
         ELSE /\ Settle("overview", "failed", p)
              /\ bundle' = bundle
  /\ pc' = "quote"
  /\ UNCHANGED << signins, users, env, variant, req, path, sentiment, score, ai,
                  sections, res >>

----------------------------------------------------------------------------
(* Realtime quote, with the analyst recommendations nested in its try *)

QuotePayloads ==
  { Throw,
    [kind |-> "quote", marketCap |-> TRUE, trailingPE |-> TRUE,
     earningsTimestamp |-> TRUE] }

IssueQuote ==
  /\ pc = "quote"
  /\ Issue("quote")
  /\ pc' = "await_quote"
  /\ UNCHANGED << signins, users, env, variant, req, path, got, bundle, sentiment,
                  score, ai, sections, res >>

SettleQuote ==
  /\ pc = "await_quote"
  /\ \E p \in QuotePayloads :
       IF p.kind = "throw"
         THEN /\ Settle("quote", "failed", p)
              /\ bundle' = bundle
              /\ pc' = "insider"
         ELSE /\ Settle("quote", "ok", p)
              /\ bundle' = [bundle EXCEPT !.quote =
                              [present |-> TRUE,
                               realtimePrice |-> TRUE,
                               marketCap |-> p.marketCap,
                               peRatio |-> p.trailingPE,
                               earningsDate |-> p.earningsTimestamp]]
              /\ pc' = "analyst"
  /\ UNCHANGED << signins, users, env, variant, req, path, sentiment, score, ai,
                  sections, res >>

AnalystPayloads ==
  { Throw,
    [kind |-> "summary", trend |-> <<>>],
    [kind |-> "summary", trend |-> << [strongBuy |-> 3, buy |-> 5, hold |-> 2] >>] }

OrZero(r, f) == IF f \in DOMAIN r THEN r[f] ELSE 0

IssueAnalyst ==
  /\ pc = "analyst"
  /\ Issue("analyst")
  /\ pc' = "await_analyst"
  /\ UNCHANGED << signins, users, env, variant, req, path, got, bundle, sentiment,
                  score, ai, sections, res >>

SettleAnalyst ==
  /\ pc = "await_analyst"
  /\ \E p \in AnalystPayloads :
       IF p.kind = "throw"
         THEN Settle("analyst", "failed", p) /\ bundle' = bundle
       ELSE IF Len(p.trend) = 0
         THEN Settle("analyst", "nodata", p) /\ bundle' = bundle
       ELSE /\ Settle("analyst", "ok", p)
            /\ bundle' = [bundle EXCEPT !.analystRatings =
                            [present |-> TRUE,
                             strongBuy |-> OrZero(p.trend[1], "strongBuy"),
                             buy |-> OrZero(p.trend[1], "buy"),
                             hold |-> OrZero(p.trend[1], "hold"),
                             sell |-> OrZero(p.trend[1], "sell"),
                             strongSell |-> OrZero(p.trend[1], "strongSell")]]
  /\ pc' = "insider"
  /\ UNCHANGED << signins, users, env, variant, req, path, sentiment, score, ai,
                  sections, res >>

----------------------------------------------------------------------------
(* Insider filings feed *)

Filings ==
  { [title |-> <<"C","E","O"," ","r","e","p","o","r","t","s"," ","s","a","l","e"," ","o","f"," ","s","h","a","r","e","s">>,
     daysAgo |-> 10],
    [title |-> <<"C","F","O"," ","p","u","r","c","h","a","s","e">>,
     daysAgo |-> 100] }

InsiderPayloads ==
  {Throw} \cup {[kind |-> "feed", entries |-> e] : e \in SeqsUpTo(Filings, MaxFilings)}

IssueInsider ==
  /\ pc = "insider"
  /\ Issue("insider")
  /\ pc' = "await_insider"
  /\ UNCHANGED << signins, users, env, variant, req, path, got, bundle, sentiment,
                  score, ai, sections, res >>

\* the insider block, for the feeds a provider set delivers
SettleInsiderFrom(payloads) ==
  /\ pc = "await_insider"
  /\ \E p \in payloads :
       IF p.kind = "throw"
         THEN Settle("insider", "failed", p) /\ bundle' = bundle
         ELSE /\ Settle("insider",
                        IF insiderDataOf(p.entries).present THEN "ok" ELSE "nodata", p)
              /\ bundle' = [bundle EXCEPT !.insiderData = insiderDataOf(p.entries)]
  /\ pc' = "social"
  /\ UNCHANGED << signins, users, env, variant, req, path, sentiment, score, ai,
                  sections, res >>

SettleInsider == SettleInsiderFrom(InsiderPayloads)

----------------------------------------------------------------------------
(* Social sentiment feed *)

SentimentLabels == {"Bullish", "none"}

SocialPayloads ==
  {Throw, [kind |-> "json", hasMessages |-> FALSE, messages |-> <<>>]}
  \cup {[kind |-> "json", hasMessages |-> TRUE, messages |-> m] :
          m \in SeqsUpTo(SentimentLabels, MaxMsgs)}

IssueSocial ==
  /\ pc = "social"
  /\ Issue("social")
  /\ pc' = "await_social"
  /\ UNCHANGED << signins, users, env, variant, req, path, got, bundle, sentiment,
                  score, ai, sections, res >>

SocialSlice(p) ==
  IF p.kind = "json" /\ p.hasMessages THEN socialSentimentOf(p.messages) ELSE Absent

SettleSocialFrom(payloads) ==
  /\ pc = "await_social"
  /\ \E p \in payloads :
       /\ Settle("social",
                 IF p.kind = "throw" \/ ~p.hasMessages THEN "failed"
                 ELSE IF \E i \in 1..Len(p.messages) : p.messages[i] # "none"
                   THEN "ok" ELSE "nodata",
                 p)
       /\ bundle' = [bundle EXCEPT !.socialSentiment = SocialSlice(p)]
  /\ pc' = "news"
  /\ UNCHANGED << signins, users, env, variant, req, path, sentiment, score, ai,
                  sections, res >>

SettleSocial == SettleSocialFrom(SocialPayloads)

----------------------------------------------------------------------------
(* News search of the equity path (the same code in both files) *)

Articles ==
  { [title |-> <<"A","p","p","l","e"," ","s","h","a","r","e","s"," ","s","u","r","g","e">>,
     description |-> <<>>, titleless |-> FALSE],
    [title |-> <<"R","a","i","n"," ","t","o","d","a","y">>,
     description |-> <<>>, titleless |-> FALSE] }

Titleless == [title |-> <<>>, description |-> <<>>, titleless |-> TRUE]

NewsPayloads ==
  {Throw, [kind |-> "json", articles |-> << Titleless >>]}
  \cup {[kind |-> "json", articles |-> a] : a \in SeqsUpTo(Articles, MaxArticles)}

IssueNews ==
  /\ pc = "news"
  /\ IF env.NEWS_KEY
       THEN Issue("news") /\ pc' = "await_news"
       ELSE pc' = "score" /\ UNCHANGED << call, trace >>
  /\ UNCHANGED << signins, users, env, variant, req, path, got, bundle, sentiment,
                  score, ai, sections, res >>

\* if (d.articles?.length) { filter, slice, map }
FinishNews(c, p) ==
  IF p.kind = "throw" \/ FilterThrows(p.articles)
    THEN Settle(c, "failed", p) /\ bundle' = bundle
    ELSE /\ Settle(c,
                   IF Len(relevantArticles(p.articles, Ticker)) > 0
                     THEN "ok" ELSE "nodata",
                   p)
         /\ bundle' = [bundle EXCEPT !.news =
                         NewsItems(relevantArticles(p.articles, Ticker))]

\* the first query, for the payloads a provider set delivers
SettleNewsFrom(payloads) ==
  /\ pc = "await_news"
  /\ \E p \in payloads :
       IF p.kind = "json" /\ Len(p.articles) = 0
         THEN /\ Settle("news", "nodata", p)
              /\ bundle' = bundle
              /\ pc' = "news2"
         ELSE FinishNews("news", p) /\ pc' = "score"
  /\ UNCHANGED << signins, users, env, variant, req, path, sentiment, score, ai,
                  sections, res >>

SettleNews == SettleNewsFrom(NewsPayloads)

\* the fallback query, issued when the first one brought no article
IssueNews2 ==
  /\ pc = "news2"
  /\ Issue("news2")
  /\ pc' = "await_news2"
  /\ UNCHANGED << signins, users, env, variant, req, path, got, bundle, sentiment,
                  score, ai, sections, res >>

SettleNews2From(payloads) ==
  /\ pc = "await_news2"
  /\ \E p \in payloads : FinishNews("news2", p)
  /\ pc' = "score"
  /\ UNCHANGED << signins, users, env, variant, req, path, sentiment, score, ai,
                  sections, res >>

SettleNews2 == SettleNews2From(NewsPayloads)

----------------------------------------------------------------------------
(* Equity path of src/unnamed/part_000: the Alpha Vantage quote *)

PctSamples == {-2500, -1200, -300, 0, 150, 600, 2500}

PricePayloads ==
  { Throw,
    [kind |-> "json", quote |-> FALSE, changePct |-> NullNum],
    [kind |-> "json", quote |-> TRUE, changePct |-> NullNum],
    [kind |-> "json", quote |-> TRUE, changePct |-> NaN] }
  \cup {[kind |-> "json", quote |-> TRUE, changePct |-> Hundredths(h)] : h \in PctSamples}

IssuePrice ==
  /\ pc = "price"
  /\ IF env.PRICE_KEY
       THEN Issue("price") /\ pc' = "await_price"
       ELSE pc' = "news" /\ UNCHANGED << call, trace >>
  /\ UNCHANGED << signins, users, env, variant, req, path, got, bundle, sentiment,
                  score, ai, sections, res >>

\* a quote whose change percent is missing sets price and change, and then
\* throws on .replace: changePct stays null
SettlePrice ==
  /\ pc = "await_price"
  /\ \E p \in PricePayloads :
       IF p.kind = "json" /\ p.quote
         THEN /\ Settle("price", IF p.changePct.null THEN "failed" ELSE "ok", p)
              /\ bundle' = [bundle EXCEPT !.price =
                              [present |-> TRUE, changePct |-> p.changePct]]
         ELSE /\ Settle("price", "failed", p)
              /\ bundle' = bundle
  /\ pc' = "news"
  /\ UNCHANGED << signins, users, env, variant, req, path, sentiment, score, ai,
                  sections, res >>

----------------------------------------------------------------------------
(* handleCryptoAnalysis: quote and news *)

IssueCQuote ==
  /\ pc = "cquote"
  /\ Issue("cquote")
  /\ pc' = "await_cquote"
  /\ UNCHANGED << signins, users, env, variant, req, path, got, bundle, sentiment,
                  score, ai, sections, res >>

\* market data whose 24h change is null sets price, and then throws on
\* .toFixed: changePct stays null
SettleCQuote ==
  /\ pc = "await_cquote"
  /\ \E p \in PricePayloads :
       IF p.kind = "json" /\ p.quote
         THEN /\ Settle("cquote", IF p.changePct.null THEN "failed" ELSE "ok", p)
              /\ bundle' = [bundle EXCEPT !.price =
                              [present |-> TRUE, changePct |-> p.changePct]]
         ELSE /\ Settle("cquote", "failed", p)
              /\ bundle' = bundle
  /\ pc' = "cnews"
  /\ UNCHANGED << signins, users, env, variant, req, path, sentiment, score, ai,
                  sections, res >>

IssueCNews ==
  /\ pc = "cnews"
  /\ IF env.NEWS_KEY
       THEN Issue("news") /\ pc' = "await_cnews"
       ELSE pc' = "score" /\ UNCHANGED << call, trace >>
  /\ UNCHANGED << signins, users, env, variant, req, path, got, bundle, sentiment,
                  score, ai, sections, res >>

\* no relevance filter and no second query on this path
SettleCNewsFrom(payloads) ==
  /\ pc = "await_cnews"
  /\ \E p \in payloads :
       IF p.kind = "throw"
         THEN Settle("news", "failed", p) /\ bundle' = bundle
         ELSE /\ Settle("news", IF Len(p.articles) > 0 THEN "ok" ELSE "nodata", p)
              /\ bundle' = [bundle EXCEPT !.news = NewsItems(p.articles)]
  /\ pc' = "score"
  /\ UNCHANGED << signins, users, env, variant, req, path, sentiment, score, ai,
                  sections, res >>

SettleCNews == SettleCNewsFrom(NewsPayloads)

----------------------------------------------------------------------------
(* Scoring.  The position after the last adapter block of each handler.    *)

\* scoring that does not wait for the news request
ScoreEarly == pc \in {"score", "await_news", "await_cnews"}

ScoreReady == pc = "score"

\* src/server.js computes the news sentiment only
ScoreServer ==
  /\ ScoreReady
  /\ path = "equity" /\ variant = "server"
  /\ sentiment' = analyzeNewsSentiment(bundle.news, Ticker)
  /\ trace' = Append(trace, Ev("stage", "score"))
  /\ got' = NoPayload
  /\ pc' = "llm"
  /\ UNCHANGED << signins, users, env, variant, req, path, call, bundle, score, ai,
                  sections, res >>

ScoreEquity ==
  /\ ScoreReady
  /\ path = "equity" /\ variant = "part_000"
  /\ sentiment' = analyzeNewsSentiment(bundle.news, Ticker)
  /\ score' = [present |-> TRUE,
               value |-> EquityInterestScore(
                           IF bundle.price.present THEN bundle.price.changePct
                           ELSE NullNum,
                           bundle.news,
                           analyzeNewsSentiment(bundle.news, Ticker))]
  /\ trace' = Append(trace, Ev("stage", "score"))
  /\ got' = NoPayload
  /\ pc' = "llm"
  /\ UNCHANGED << signins, users, env, variant, req, path, call, bundle, ai, sections,
                  res >>

ScoreCrypto ==
  /\ ScoreReady
  /\ path = "crypto"
  /\ LET value == CryptoInterestScore(
                    IF bundle.price.present THEN bundle.price.changePct
                    ELSE NullNum,
                    bundle.news)
     IN score' = [present |-> TRUE, value |-> value,
                  level |-> interestLevel(value)]
  /\ trace' = Append(trace, Ev("stage", "score"))
  /\ got' = NoPayload
  /\ pc' = "llm"
  /\ UNCHANGED << signins, users, env, variant, req, path, call, bundle, sentiment, ai,
                  sections, res >>

----------------------------------------------------------------------------
(* Language-model completion *)

LlmTexts == { <<"1","."," ","A","\n","x","\n","2","."," ","B","\n","y","\n","3","."," ","C","\n","z">> }

\* what response.json() gives: a throw, a payload without
\* choices[0].message.content, or one with it
LlmBodies ==
  {Throw, [kind |-> "json", content |-> <<>>]}
  \cup {[kind |-> "json", content |-> t] : t \in LlmTexts}

CryptoSentinel == <<"A","n","a","l","y","s","i","s"," ","t","e","m","p","o","r","a","r","i","l","y"," ","u","n","a","v","a","i","l","a","b","l","e",".">>

\* content || sentinel
OrSentinel(content, sentinel) == IF content = <<>> THEN sentinel ELSE content

SentinelOf(p) == IF p = "crypto" THEN CryptoSentinel ELSE <<>>

\* one prompt and one call: handleCryptoAnalysis and part_000
IssueLLM ==
  /\ pc = "llm"
  /\ path = "crypto" \/ variant = "part_000"
  /\ call' = [call EXCEPT !["llm"] = "inflight"]
  /\ trace' = trace \o << Ev("stage", "prompt"), Ev("issue", "llm") >>
  /\ pc' = "await_llm"
  /\ UNCHANGED << signins, users, env, variant, req, path, got, bundle, sentiment,
                  score, ai, sections, res >>

\* the completion call, for the bodies a provider set delivers
SettleLLMFrom(bodies) ==
  /\ pc = "await_llm"
  /\ \E rejected \in BOOLEAN, body \in bodies :
       IF rejected \/ body.kind = "throw"
         THEN /\ Settle("llm", "failed", IF rejected THEN Throw ELSE body)
              /\ CatchRespond(path)
              /\ UNCHANGED << ai, sections >>
         ELSE /\ Settle("llm", IF body.content = <<>> THEN "nodata" ELSE "ok", body)
              /\ ai' = [llm |-> OrSentinel(body.content, SentinelOf(path))]
              /\ sections' =
                   [llm |-> parseSections(OrSentinel(body.content, SentinelOf(path)),
                                          MarketTitles)]
              /\ Respond(200, "analysis")
  /\ UNCHANGED << signins, users, env, variant, req, path, bundle, sentiment, score >>

SettleLLM == SettleLLMFrom(LlmBodies)

DualCalls == {"llm_simplified", "llm_detailed"}

\* Promise.all([fetch(simplified), fetch(detailed)])
IssueLLMDual ==
  /\ pc = "llm"
  /\ path = "equity" /\ variant = "server"
  /\ call' = [c \in Calls |-> IF c \in DualCalls THEN "inflight" ELSE call[c]]
  /\ trace' = trace \o << Ev("stage", "prompt"), Ev("issue", "llm_simplified"),
                          Ev("issue", "llm_detailed") >>
  /\ pc' = "await_all"
  /\ UNCHANGED << signins, users, env, variant, req, path, got, bundle, sentiment,
                  score, ai, sections, res >>

\* Promise.all is fulfilled once every fetch is, and rejected with the first
\* rejection; the handler is resumed by the settlement of Promise.all only
AnyFulfilled(st) == \E c \in DualCalls : st[c] = "resolved"

AllFulfilled(st) == \A c \in DualCalls : st[c] = "resolved"

SettleDual ==
  /\ pc = "await_all"
  /\ \E c \in DualCalls, rejected \in BOOLEAN :
       /\ call[c] = "inflight"
       /\ call' = [call EXCEPT ![c] = IF rejected THEN "failed" ELSE "resolved"]
       /\ IF rejected
            THEN /\ trace' = Append(trace, Ev("settle", "Promise.all"))
                 /\ CatchRespond("equity")
            ELSE IF AllFulfilled(call')
              THEN /\ trace' = Append(trace, Ev("settle", "Promise.all"))
                   /\ pc' = "decode"
                   /\ res' = res
              ELSE UNCHANGED << trace, pc, res >>
  /\ UNCHANGED << signins, users, env, variant, req, path, got, bundle, sentiment,
                  score, ai, sections >>

\* a fetch still in flight when Promise.all rejected settles unobserved
SettleOrphan ==
  /\ pc = "done"
  /\ \E c \in DualCalls, rejected \in BOOLEAN :
       /\ call[c] = "inflight"
       /\ call' = [call EXCEPT ![c] = IF rejected THEN "failed" ELSE "resolved"]
  /\ UNCHANGED << signins, users, env, variant, req, pc, path, got, bundle, sentiment,
                  score, ai, sections, trace, res >>

\* await simplifiedResponse.json(); await detailedResponse.json(); parse both
DecodeDualFrom(pairs) ==
  /\ pc = "decode"
  /\ \E pair \in pairs :
     LET bs == pair[1]
         bd == pair[2]
     IN
       IF bs.kind = "throw" \/ bd.kind = "throw"
         THEN /\ call' = [call EXCEPT
                            !["llm_simplified"] =
                               IF bs.kind = "throw" THEN "failed" ELSE @,
                            !["llm_detailed"] =
                               IF bs.kind # "throw" THEN "failed" ELSE @]
              /\ CatchRespond("equity")
              /\ UNCHANGED << ai, sections >>
         ELSE /\ call' = [call EXCEPT
                            !["llm_simplified"] =
                               IF bs.content = <<>> THEN "nodata" ELSE "ok",
                            !["llm_detailed"] =
                               IF bd.content = <<>> THEN "nodata" ELSE "ok"]
              /\ ai' = [simplified |-> OrSentinel(bs.content, <<>>),
                        detailed |-> OrSentinel(bd.content, <<>>)]
              /\ sections' =
                   [simplified |-> parseSections(bs.content, SimplifiedTitles),
                    detailed |-> parseSections(bd.content, DetailedTitles)]
              /\ Respond(200, "analysis")
  /\ trace' = Append(trace, Ev("stage", "decode"))
  /\ UNCHANGED << signins, users, env, variant, req, path, got, bundle, sentiment,
                  score >>

DecodeDual == DecodeDualFrom(LlmBodies \X LlmBodies)

----------------------------------------------------------------------------
Next ==
  \/ Authenticate
  \/ AnalyzeEntry
  \/ IssueOverview \/ SettleOverview
  \/ IssueQuote \/ SettleQuote
  \/ IssueAnalyst \/ SettleAnalyst
  \/ IssueInsider \/ SettleInsider
  \/ IssueSocial \/ SettleSocial
  \/ IssueNews \/ SettleNews
  \/ IssueNews2 \/ SettleNews2
  \/ IssuePrice \/ SettlePrice
  \/ IssueCQuote \/ SettleCQuote
  \/ IssueCNews \/ SettleCNews
  \/ ScoreServer \/ ScoreEquity \/ ScoreCrypto
  \/ IssueLLM \/ SettleLLM
  \/ IssueLLMDual \/ SettleDual \/ SettleOrphan \/ DecodeDual

Spec == Init /\ [][Next]_vars

----------------------------------------------------------------------------
(* The request under fair scheduling: every call in flight settles and the *)
(* event loop runs every continuation that is ready, so a step that stays  *)
(* possible is eventually taken.  The request carries the token of the     *)
(* stored user, every provider key is set, and a provider answers with a   *)
(* throw or with a list of at most one entry.                              *)

FairInit ==
  /\ Init
  /\ req.token = "tok1"
  /\ req.isCrypto = "null"
  /\ \A k \in DOMAIN env : env[k]

ShortFeeds == {p \in InsiderPayloads : p.kind = "throw" \/ Len(p.entries) <= 1}

ShortStreams == {p \in SocialPayloads : p.kind = "throw" \/ Len(p.messages) <= 1}

ShortNews == {p \in NewsPayloads : p.kind # "json" \/ Len(p.articles) <= 1}

SettleInsiderShort == SettleInsiderFrom(ShortFeeds)

SettleSocialShort == SettleSocialFrom(ShortStreams)

SettleNewsShort == SettleNewsFrom(ShortNews)

SettleNews2Short == SettleNews2From(ShortNews)

SettleCNewsShort == SettleCNewsFrom(ShortNews)

FairNext ==
  \/ Authenticate
  \/ AnalyzeEntry
  \/ IssueOverview \/ SettleOverview
  \/ IssueQuote \/ SettleQuote
  \/ IssueAnalyst \/ SettleAnalyst
  \/ IssueInsider \/ SettleInsiderShort
  \/ IssueSocial \/ SettleSocialShort
  \/ IssueNews \/ SettleNewsShort
  \/ IssueNews2 \/ SettleNews2Short
  \/ IssuePrice \/ SettlePrice
  \/ IssueCQuote \/ SettleCQuote
  \/ IssueCNews \/ SettleCNewsShort
  \/ ScoreServer \/ ScoreEquity \/ ScoreCrypto
  \/ IssueLLM \/ SettleLLM
  \/ IssueLLMDual \/ SettleDual \/ SettleOrphan \/ DecodeDual

FairSpec == FairInit /\ [][FairNext]_vars /\ WF_vars(FairNext)

----------------------------------------------------------------------------
(* The scoring step on its own: the state right after aggregation, with    *)
(* the quote and the news list drawn from wider sets than the providers of *)
(* Spec deliver.                                                           *)

MaxNews == 3

ScoreTitles ==
  { <<"A","A","P","L"," ","s","t","o","c","k"," ","s","u","r","g","e","s",","," ","s","o","a","r","s"," ","t","o"," ","r","e","c","o","r","d",","," ","b","e","a","t","s">>,
    <<"A","A","P","L"," ","s","h","a","r","e","s"," ","p","l","u","n","g","e",","," ","c","r","a","s","h",","," ","c","o","l","l","a","p","s","e",":"," ","w","o","r","s","t"," ","l","o","s","s">>,
    <<"A","p","p","l","e"," ","s","h","a","r","e","s"," ","f","a","l","l">>,
    <<"A","A","P","L"," ","s","t","o","c","k"," ","u","p">> }

\* further news lists, delivered as they are
ScoreLists ==
  { << <<"A","p","p","l","e"," ","s","u","r","g","e","s"," ","o","n"," ","s","t","r","o","n","g"," ","e","a","r","n","i","n","g","s"," ","b","e","a","t">> >>,
    << <<"A","A","P","L"," ","g","a","i","n","s"," ","o","n"," ","g","a","i","n","s">> >>,
    << <<"A","A","P","L"," ","h","i","t","s"," ","r","e","c","o","r","d">>,
       <<"A","p","p","l","e"," ","s","h","a","r","e","s"," ","f","a","l","l">> >> }

ScorePcts ==
  {NullNum, NaN}
  \cup {Hundredths(h) : h \in {-2500, -2000, -1200, -1000, -600, -500, -300,
                                -200, -100, 0, 100, 200, 300, 500, 600, 1000,
                                1200, 2000, 2500}}

\* the adapter blocks of a handler, in program order (the analyst call is
\* nested in the quote's block and the second news query in the first's)
AdapterOrder(p, v) ==
  IF p = "crypto" THEN << "cquote", "news" >>
  ELSE IF v = "server" THEN << "overview", "quote", "insider", "social", "news" >>
  ELSE << "price", "news" >>

\* every adapter issued and settled in turn
AggregationTrace(order) ==
  << Ev("stage", "classify") >> \o
  [i \in 1..(2 * Len(order)) |->
     IF i % 2 = 1 THEN Ev("issue", order[(i + 1) \div 2])
     ELSE Ev("settle", order[i \div 2])]

ScorePrices(p, v) ==
  IF p = "equity" /\ v = "server" THEN {Absent}
  ELSE {Absent} \cup {[present |-> TRUE, changePct |-> c] : c \in ScorePcts}

\* aggregation is over: the quote adapter delivered `price` (or failed), the
\* news adapter delivered `titles` (or failed), every other adapter failed
ScoreInit ==
  /\ signins = <<>>
  /\ users = {[id |-> 1, email |-> "a@example.com", auth_token |-> "tok1",
               last_login |-> 0]}
  /\ env = [NEWS_KEY |-> TRUE, PRICE_KEY |-> TRUE, OPENROUTER_KEY |-> TRUE]
  /\ variant \in {"server", "part_000"}
  /\ req \in [token : {"tok1"},
              ticker : {Str(<<"A","A","P","L">>), Str(<<"b","t","c">>)},
              isCrypto : {"null"}]
  /\ pc = "score"
  /\ path = IF detectAsCrypto(req.ticker.s, req.isCrypto) THEN "crypto" ELSE "equity"
  /\ got = NoPayload
  /\ \E price \in ScorePrices(path, variant),
        titles \in SeqsUpTo(ScoreTitles, MaxNews) \cup ScoreLists :
       /\ bundle = [overview |-> Absent, quote |-> Absent,
                    analystRatings |-> Absent, insiderData |-> Absent,
                    socialSentiment |-> Absent, price |-> price,
                    news |-> [i \in 1..Len(titles) |-> [title |-> titles[i]]]]
       /\ call = [c \in Calls |->
                    IF c \notin Range(AdapterOrder(path, variant)) THEN "idle"
                    ELSE IF c = "news" /\ Len(titles) > 0 THEN "ok"
                    ELSE IF c \in {"price", "cquote"} /\ price.present
                            /\ ~price.changePct.null THEN "ok"
                    ELSE "failed"]
  /\ sentiment = Absent
  /\ score = Absent
  /\ ai = <<>>
  /\ sections = <<>>
  /\ trace = AggregationTrace(AdapterOrder(path, variant))
  /\ res = <<>>

ScoreNext == ScoreServer \/ ScoreEquity \/ ScoreCrypto

ScoreSpec == ScoreInit /\ [][ScoreNext]_vars

----------------------------------------------------------------------------
(* The insider block on its own: the state in which the filings feed is    *)
(* about to be requested, with feeds longer and more varied than the ones  *)
(* the provider of Spec delivers.                                          *)

MaxFeed == 6

\* filings that make up the longer feeds
FeedFilings ==
  { [title |-> <<"C","E","O"," ","r","e","p","o","r","t","s"," ","s","a","l","e"," ","o","f"," ","s","h","a","r","e","s">>,
     daysAgo |-> 10],
    [title |-> <<"C","F","O"," ","p","u","r","c","h","a","s","e">>,
     daysAgo |-> 40],
    [title |-> <<"D","i","r","e","c","t","o","r"," ","1","0","b","5","-","1"," ","p","l","a","n"," ","a","d","o","p","t","e","d">>,
     daysAgo |-> 20] }

\* filings delivered one at a time
SingleFilings ==
  { [title |-> <<"D","i","r","e","c","t","o","r"," ","1","0","b","5","-","1"," ","p","l","a","n"," ","a","d","o","p","t","e","d">>,
     daysAgo |-> 10],
    [title |-> <<"O","f","f","i","c","e","r"," ","s","a","l","e"," ","a","n","d"," ","p","u","r","c","h","a","s","e"," ","o","f"," ","s","h","a","r","e","s">>,
     daysAgo |-> 10],
    [title |-> <<"P","r","e","s","i","d","e","n","t"," ","d","i","s","p","o","s","e","d"," ","o","f"," ","s","t","o","c","k">>,
     daysAgo |-> 5],
    [title |-> <<"D","i","r","e","c","t","o","r"," ","a","c","q","u","i","r","e","d"," ","s","h","a","r","e","s">>,
     daysAgo |-> 90],
    [title |-> <<"C","O","O"," ","t","o"," ","s","e","l","l"," ","s","h","a","r","e","s">>,
     daysAgo |-> 91],
    [title |-> <<"I","n","s","i","d","e","r"," ","b","u","y">>,
     daysAgo |-> 30],
    [title |-> <<"C","F","O"," ","p","u","r","c","h","a","s","e">>,
     daysAgo |-> 100] }

\* filings whose title names an office, or several
RoleFilings ==
  { [title |-> <<"D","i","r","e","c","t","o","r"," ","a","n","d"," ","C","E","O"," ","s","a","l","e">>,
     daysAgo |-> 10],
    [title |-> <<"O","f","f","i","c","e","r"," ","a","n","d"," ","D","i","r","e","c","t","o","r"," ","p","u","r","c","h","a","s","e">>,
     daysAgo |-> 10],
    [title |-> <<"P","r","e","s","i","d","e","n","t"," ","a","n","d"," ","C","h","i","e","f"," ","F","i","n","a","n","c","i","a","l"," ","O","f","f","i","c","e","r"," ","s","a","l","e">>,
     daysAgo |-> 10],
    [title |-> <<"C","h","i","e","f"," ","O","p","e","r","a","t","i","n","g"," ","O","f","f","i","c","e","r"," ","s","a","l","e">>,
     daysAgo |-> 10],
    [title |-> <<"C","h","i","e","f"," ","E","x","e","c","u","t","i","v","e"," ","O","f","f","i","c","e","r"," ","b","u","y">>,
     daysAgo |-> 10],
    [title |-> <<"P","r","e","s","i","d","e","n","t"," ","a","n","d"," ","O","f","f","i","c","e","r"," ","s","e","l","l">>,
     daysAgo |-> 10],
    [title |-> <<"C","O","O"," ","a","n","d"," ","C","F","O"," ","s","a","l","e">>,
     daysAgo |-> 10] }

FeedPayloads ==
  {[kind |-> "feed", entries |-> e] :
     e \in SeqsUpTo(FeedFilings, MaxFeed)
           \cup SeqsUpTo(SingleFilings \cup RoleFilings, 1)}

\* overview and quote were requested and failed, nothing else was issued
InsiderInit ==
  /\ signins = <<>>
  /\ users = {[id |-> 1, email |-> "a@example.com", auth_token |-> "tok1",
               last_login |-> 0]}
  /\ env = [NEWS_KEY |-> TRUE, PRICE_KEY |-> TRUE, OPENROUTER_KEY |-> TRUE]
  /\ variant = "server"
  /\ req = [token |-> "tok1", ticker |-> Str(<<"A","A","P","L">>),
            isCrypto |-> "null"]
  /\ pc = "insider"
  /\ path = "equity"
  /\ call = [c \in Calls |-> IF c \in {"overview", "quote"} THEN "failed" ELSE "idle"]
  /\ got = [of |-> "quote", p |-> Throw]
  /\ bundle = [overview |-> Absent, quote |-> Absent, analystRatings |-> Absent,
               insiderData |-> Absent, socialSentiment |-> Absent,
               price |-> Absent, news |-> <<>>]
  /\ sentiment = Absent
  /\ score = Absent
  /\ ai = <<>>
  /\ sections = <<>>
  /\ trace = AggregationTrace(<< "overview", "quote" >>)
  /\ res = <<>>

SettleInsiderFeed == SettleInsiderFrom(FeedPayloads)

InsiderNext == IssueInsider \/ SettleInsiderFeed

InsiderSpec == InsiderInit /\ [][InsiderNext]_vars

----------------------------------------------------------------------------
(* The news block on its own: the state in which the news search is about  *)
(* to be requested, on either path, with more and longer article lists     *)
(* than the provider of Spec delivers.                                     *)

MaxHeadlines == 5

\* articles that make up the longer lists
HeadlineArticles ==
  { [title |-> <<"A","p","p","l","e"," ","s","h","a","r","e","s"," ","s","u","r","g","e">>,
     description |-> <<>>, titleless |-> FALSE],
    [title |-> <<"A","A","P","L"," ","f","a","l","l","s">>,
     description |-> <<"I","n","v","e","s","t","o","r","s"," ","r","e","a","c","t">>, titleless |-> FALSE],
    [title |-> <<"R","a","i","n"," ","t","o","d","a","y">>,
     description |-> <<>>, titleless |-> FALSE] }

\* articles delivered one at a time
SingleArticles ==
  { [title |-> <<"A","p","p","l","e"," ","p","i","e"," ","r","e","c","i","p","e">>,
     description |-> <<>>, titleless |-> FALSE],
    [title |-> <<"S","t","o","c","k"," ","m","a","r","k","e","t"," ","t","o","d","a","y">>,
     description |-> <<>>, titleless |-> FALSE],
    [title |-> <<"A","d","v","a","n","c","e","d"," ","M","i","c","r","o"," ","p","o","s","t","s"," ","r","e","c","o","r","d"," ","r","e","v","e","n","u","e">>,
     description |-> <<>>, titleless |-> FALSE],
    [title |-> <<"A","M","D"," ","u","n","v","e","i","l","s"," ","c","h","i","p">>,
     description |-> <<"S","h","a","r","e","s"," ","r","i","s","e">>, titleless |-> FALSE],
    [title |-> <<"a","a","p","l"," ","S","T","O","C","K"," ","d","i","p","s">>,
     description |-> <<>>, titleless |-> FALSE] }

HeadlinePayloads ==
  {[kind |-> "json", articles |-> a] :
     a \in SeqsUpTo(HeadlineArticles, MaxHeadlines) \cup SeqsUpTo(SingleArticles, 1)}

\* the adapter blocks that come before the news block
BeforeNews(p, v) ==
  SubSeq(AdapterOrder(p, v), 1, Len(AdapterOrder(p, v)) - 1)

\* every earlier adapter was requested and failed
NewsInit ==
  /\ signins = <<>>
  /\ users = {[id |-> 1, email |-> "a@example.com", auth_token |-> "tok1",
               last_login |-> 0]}
  /\ env = [NEWS_KEY |-> TRUE, PRICE_KEY |-> TRUE, OPENROUTER_KEY |-> TRUE]
  /\ variant \in {"server", "part_000"}
  /\ req \in [token : {"tok1"},
              ticker : {Str(<<"A","A","P","L">>), Str(<<"a","a","p","l">>),
                        Str(<<"A","M","D">>), Str(<<"b","t","c">>)},
              isCrypto : {"null"}]
  /\ path = IF detectAsCrypto(req.ticker.s, req.isCrypto) THEN "crypto" ELSE "equity"
  /\ pc = IF path = "crypto" THEN "cnews" ELSE "news"
  /\ call = [c \in Calls |->
               IF c \in Range(BeforeNews(path, variant)) THEN "failed" ELSE "idle"]
  /\ got = [of |-> BeforeNews(path, variant)[Len(BeforeNews(path, variant))],
            p |-> Throw]
  /\ bundle = [overview |-> Absent, quote |-> Absent, analystRatings |-> Absent,
               insiderData |-> Absent, socialSentiment |-> Absent,
               price |-> Absent, news |-> <<>>]
  /\ sentiment = Absent
  /\ score = Absent
  /\ ai = <<>>
  /\ sections = <<>>
  /\ trace = AggregationTrace(BeforeNews(path, variant))
  /\ res = <<>>

SettleHeadlines == SettleNewsFrom(HeadlinePayloads)

SettleHeadlines2 == SettleNews2From(HeadlinePayloads)

SettleCHeadlines == SettleCNewsFrom(HeadlinePayloads)

NewsNext ==
  \/ IssueNews \/ SettleHeadlines \/ IssueNews2 \/ SettleHeadlines2
  \/ IssueCNews \/ SettleCHeadlines

NewsSpec == NewsInit /\ [][NewsNext]_vars

----------------------------------------------------------------------------
(* The parsing step on its own: the state in which the completion call is  *)
(* in flight (or, for the two parallel calls, fulfilled), every adapter    *)
(* having failed, with completion texts of many shapes.                    *)

MaxParts == 8

MaxTokens == 4

\* a numeric prefix and a lower-case word
PartTokens == { <<"1","."," ">>, <<"a">> }

\* those, an upper-case title line and a blank line
TextTokens == PartTokens \cup { <<"A","\n">>, <<"\n">> }

RECURSIVE Concat(_)
Concat(tokens) ==
  IF Len(tokens) = 0 THEN <<>> ELSE Head(tokens) \o Concat(Tail(tokens))

ParseTexts ==
  { Concat(t) : t \in SeqsUpTo(PartTokens, MaxParts) \cup SeqsUpTo(TextTokens, MaxTokens) }

ParseBodies == {[kind |-> "json", content |-> t] : t \in ParseTexts}

ParseInit ==
  /\ signins = <<>>
  /\ users = {[id |-> 1, email |-> "a@example.com", auth_token |-> "tok1",
               last_login |-> 0]}
  /\ env = [NEWS_KEY |-> TRUE, PRICE_KEY |-> TRUE, OPENROUTER_KEY |-> TRUE]
  /\ variant \in {"server", "part_000"}
  /\ req \in [token : {"tok1"},
              ticker : {Str(<<"A","A","P","L">>), Str(<<"b","t","c">>)},
              isCrypto : {"null"}]
  /\ path = IF detectAsCrypto(req.ticker.s, req.isCrypto) THEN "crypto" ELSE "equity"
  /\ pc = IF path = "equity" /\ variant = "server" THEN "decode" ELSE "await_llm"
  /\ call = [c \in Calls |->
               IF c \in Range(AdapterOrder(path, variant)) THEN "failed"
               ELSE IF pc = "decode" /\ c \in DualCalls THEN "resolved"
               ELSE IF pc = "await_llm" /\ c = "llm" THEN "inflight"
               ELSE "idle"]
  /\ got = NoPayload
  /\ bundle = [overview |-> Absent, quote |-> Absent, analystRatings |-> Absent,
               insiderData |-> Absent, socialSentiment |-> Absent,
               price |-> Absent, news |-> <<>>]
  /\ sentiment = IF path = "equity" THEN analyzeNewsSentiment(<<>>, Ticker) ELSE Absent
  /\ score = IF path = "crypto"
               THEN [present |-> TRUE, value |-> CryptoInterestScore(NullNum, <<>>)]
             ELSE IF variant = "part_000"
               THEN [present |-> TRUE,
                     value |-> EquityInterestScore(NullNum, <<>>,
                                                   analyzeNewsSentiment(<<>>, Ticker))]
             ELSE Absent
  /\ ai = <<>>
  /\ sections = <<>>
  /\ trace = AggregationTrace(AdapterOrder(path, variant))
             \o << Ev("stage", "score"), Ev("stage", "prompt") >>
             \o (IF pc = "decode"
                   THEN << Ev("issue", "llm_simplified"), Ev("issue", "llm_detailed"),
                           Ev("settle", "Promise.all") >>
                   ELSE << Ev("issue", "llm") >>)
  /\ res = <<>>

SettleLLMText == SettleLLMFrom(ParseBodies)

DecodeDualText == DecodeDualFrom({<< b, b >> : b \in ParseBodies})

ParseNext == SettleLLMText \/ DecodeDualText

ParseSpec == ParseInit /\ [][ParseNext]_vars

----------------------------------------------------------------------------
(* app.post('/auth/google'): several sign-in requests served concurrently. *)
(* A request is suspended at each await (the tokeninfo fetch and the       *)
(* statements sent to the database), where the steps of other requests may *)
(* run.  The database executes every statement and enforces the UNIQUE     *)
(* constraint on users.email.                                              *)

MaxSignIns == 3

\* the idToken of the request body: missing, vouching for an e-mail address,
\* or one that Google rejects
IdTokens == {"", "id-a", "id-b", "bad"}

EmailOf(idToken) == IF idToken = "id-a" THEN "a@example.com" ELSE "b@example.com"

\* crypto.randomBytes(32).toString('hex'): a value never drawn before
RandomTokens == << "r1", "r2", "r3", "r4", "r5", "r6" >>

NoRow == [id |-> 0]

NoResponse == [status |-> 0]

IdleSignIn ==
  [pc |-> "idle", idToken |-> "", late |-> FALSE, email |-> "",
   row |-> NoRow, res |-> NoResponse]

\* CURRENT_TIMESTAMP: later than every timestamp stored so far
Now ==
  LET stamps == {u.last_login : u \in users} \cup {0}
  IN 1 + CHOOSE m \in stamps : \A k \in stamps : k <= m

RowsOf(email) == {u \in users : u.email = email}

SignInResponds(s, response) ==
  signins' = [signins EXCEPT ![s].pc = "done", ![s].res = response]

PipelineIdle ==
  UNCHANGED << env, variant, req, pc, path, call, got, bundle, sentiment,
               score, ai, sections, trace, res >>

\* the request arrives; `late` records that a row for its address was
\* already stored
SignInArrive ==
  /\ \E s \in DOMAIN signins, t \in IdTokens :
       /\ signins[s].pc = "idle"
       /\ IF t = ""
            THEN signins' = [signins EXCEPT
                               ![s].pc = "done",
                               ![s].res = [status |-> 400, body |-> "Missing Google token"]]
            ELSE signins' = [signins EXCEPT
                               ![s].pc = "verify",
                               ![s].idToken = t,
                               ![s].late = t # "bad" /\ RowsOf(EmailOf(t)) # {}]
  /\ users' = users
  /\ PipelineIdle

\* the tokeninfo fetch settles: a throw, a rejection, or the e-mail address
SignInVerified ==
  /\ \E s \in DOMAIN signins, thrown \in BOOLEAN :
       /\ signins[s].pc = "verify"
       /\ IF thrown
            THEN SignInResponds(s, [status |-> 500, body |-> "Authentication failed"])
          ELSE IF signins[s].idToken = "bad"
            THEN SignInResponds(s, [status |-> 401, body |-> "Invalid Google token"])
          ELSE signins' = [signins EXCEPT
                             ![s].pc = "select",
                             ![s].email = EmailOf(signins[s].idToken)]
  /\ users' = users
  /\ PipelineIdle

\* SELECT * FROM users WHERE email = $1
SignInSelect ==
  /\ \E s \in DOMAIN signins :
       /\ signins[s].pc = "select"
       /\ LET rows == RowsOf(signins[s].email)
          IN IF rows = {}
               THEN signins' = [signins EXCEPT ![s].pc = "insert"]
               ELSE signins' = [signins EXCEPT
                                  ![s].pc = "update",
                                  ![s].row = CHOOSE u \in rows : TRUE]
  /\ users' = users
  /\ PipelineIdle

\* the INSERT on a table without the UNIQUE constraint on email
SignInInsertUnconstrained ==
  /\ \E s \in DOMAIN signins :
       /\ signins[s].pc = "insert"
       /\ LET email == signins[s].email
              row == [id |-> Cardinality(users) + 1, email |-> email,
                      auth_token |-> RandomTokens[s], last_login |-> Now]
          IN /\ users' = users \cup {row}
             /\ SignInResponds(s, [status |-> 200, body |-> "success",
                                    token |-> row.auth_token])
  /\ PipelineIdle

\* INSERT INTO users ... RETURNING *: a second row for the address violates
\* the UNIQUE constraint and the statement throws
SignInInsert ==
  /\ \E s \in DOMAIN signins :
       /\ signins[s].pc = "insert"
       /\ LET email == signins[s].email
              row == [id |-> Cardinality(users) + 1, email |-> email,
                      auth_token |-> RandomTokens[s], last_login |-> Now]
          IN IF RowsOf(email) # {}
               THEN /\ users' = users
                    /\ SignInResponds(s, [status |-> 500,
                                           body |-> "Authentication failed"])
               ELSE /\ users' = users \cup {row}
                    /\ SignInResponds(s, [status |-> 200, body |-> "success",
                                           token |-> row.auth_token])
  /\ PipelineIdle

\* UPDATE users SET last_login = CURRENT_TIMESTAMP WHERE id = $1; the
\* response is built from the row as it was selected
SignInUpdate ==
  /\ \E s \in DOMAIN signins :
       /\ signins[s].pc = "update"
       /\ users' = {IF u.id = signins[s].row.id
                      THEN [u EXCEPT !.last_login = Now] ELSE u : u \in users}
       /\ SignInResponds(s, [status |-> 200, body |-> "success",
                              token |-> signins[s].row.auth_token])
  /\ PipelineIdle

AuthInit ==
  /\ signins = [s \in 1..MaxSignIns |-> IdleSignIn]
  /\ users \in {{}, {[id |-> 1, email |-> "a@example.com", auth_token |-> "tok1",
                       last_login |-> 0]}}
  /\ env = [NEWS_KEY |-> TRUE, PRICE_KEY |-> TRUE, OPENROUTER_KEY |-> TRUE]
  /\ variant = "server"
  /\ req = [token |-> "", ticker |-> Undefined, isCrypto |-> "null"]
  /\ pc = "auth"
  /\ path = "none"
  /\ call = [c \in Calls |-> "idle"]
  /\ got = NoPayload
  /\ bundle = [overview |-> Absent, quote |-> Absent, analystRatings |-> Absent,
               insiderData |-> Absent, socialSentiment |-> Absent,
               price |-> Absent, news |-> <<>>]
  /\ sentiment = Absent
  /\ score = Absent
  /\ ai = <<>>
  /\ sections = <<>>
  /\ trace = <<>>
  /\ res = <<>>

AuthNext ==
  SignInArrive \/ SignInVerified \/ SignInSelect \/ SignInInsert \/ SignInUpdate

AuthSpec == AuthInit /\ [][AuthNext]_vars

----------------------------------------------------------------------------
(* Vocabulary of the properties *)

LlmCalls == {"llm", "llm_simplified", "llm_detailed"}

AdapterCalls == Calls \ LlmCalls

\* the adapters a request of this path and file runs
AdaptersOfRequest ==
  IF path = "crypto" THEN {"cquote", "news"}
  ELSE IF variant = "server"
    THEN {"overview", "quote", "analyst", "insider", "social", "news"}
    ELSE {"price", "news"}

Populated(c) ==
  CASE c = "overview" -> bundle.overview.present
    [] c = "quote" -> bundle.quote.present
    [] c = "analyst" -> bundle.analystRatings.present
    [] c = "insider" -> bundle.insiderData.present
    [] c = "social" -> bundle.socialSentiment.present
    [] c \in {"news", "news2"} -> Len(bundle.news) > 0
    [] c \in {"price", "cquote"} -> bundle.price.present

Happened(e) == \E i \in 1..Len(trace) : trace[i] = e

AggregationOver == Happened(Ev("stage", "score"))

MiddlewareBodies ==
  {"Authentication required", "Invalid token", "Authentication failed"}

ResultBodies == {"analysis", "unavailable", "crypto-unavailable"}

\* C1: when exactly one adapter of a request failed and no other adapter
\* failed or came back empty, every other slice of the bundle is populated
\* once aggregation is over
C1_OnlyFailedSliceAbsent ==
  (AggregationOver /\ env.PRICE_KEY /\ env.NEWS_KEY) =>
    \A a \in AdaptersOfRequest :
      (/\ call[a] = "failed"
       /\ \A b \in (AdapterCalls \ {a}) : call[b] \notin {"failed", "nodata"})
      => \A b \in AdaptersOfRequest \ {a} : Populated(b)

CallOfNarrative(k) ==
  CASE k = "llm" -> "llm"
    [] k = "simplified" -> "llm_simplified"
    [] k = "detailed" -> "llm_detailed"

\* C2: a response sent after a completion call failed still is the analysis,
\* with the sentinel text as narrative and no parsed section
C2_LlmFailureTolerated ==
  (pc = "done" /\ path # "none"
   /\ \E c \in LlmCalls : call[c] \in {"failed", "nodata"})
  => /\ res[Len(res)].body = "analysis"
     /\ \A k \in DOMAIN ai :
          (call[CallOfNarrative(k)] \in {"failed", "nodata"})
          => ai[k] = CryptoSentinel /\ sections[k] = <<>>

\* C3: a request that passed authentication gets one response, at most and
\* exactly when it is done; without a ticker it is the 400 "Missing ticker",
\* with one it is a 200 carrying a result, the static fallback included
C3_OneSuccessShapedResponse ==
  /\ Len(res) <= 1
  /\ (pc = "done") <=> (Len(res) = 1)
  /\ \A i \in 1..Len(res) :
       res[i].body \notin MiddlewareBodies =>
         IF Falsy(req.ticker)
           THEN res[i] = [status |-> 400, body |-> "Missing ticker"]
           ELSE res[i].status = 200 /\ res[i].body \in ResultBodies

\* the internal failure of C3: a rejected completion call after aggregation
C3_Witness ==
  /\ pc = "done"
  /\ call["llm_detailed"] = "failed"
  /\ Len(bundle.news) > 0
  /\ res = << [status |-> 200, body |-> "unavailable"] >>

\* C4: the news-sentiment score and the interest score are integers of
\* 0..100, whatever the percent change (absent, null and NaN included) and
\* the news list
C4_ScoresInRange ==
  /\ sentiment.present => sentiment.score \in 0..100
  /\ score.present => score.value \in 0..100

\* three headlines of the strongest kind: the unclamped sentiment is 130
C4_Witness ==
  /\ pc = "llm"
  /\ variant = "part_000" /\ path = "equity"
  /\ Len(bundle.news) = 3
  /\ \A i \in 1..3 : bundle.news[i].title \in ScoreTitles
  /\ 50 + Accumulate(bundle.news, Ticker, 1).sentimentScore > 100
  /\ sentiment.score = 100
  /\ score.present

PastEntry ==
  /\ pc \notin {"auth", "handler"}
  /\ \A i \in 1..Len(res) : res[i].body \notin MiddlewareBodies

\* the class C5 gives a request
ClaimedClass ==
  LET upper == toUpperCase(req.ticker.s)
  IN IF req.isCrypto = "true" \/ \E k \in 1..25 : knownCryptoTickers[k] = upper
       THEN "crypto" ELSE "equity"

\* C5 as stated: every ticker string, with every hint, takes exactly the
\* path of its class
C5_EveryStringClassified ==
  (PastEntry /\ req.ticker.type = "string") =>
     Len(knownCryptoTickers) = 25 /\ path = ClaimedClass

\* C5 as amended: every ticker string that is not empty, with every hint,
\* takes exactly the path of its class
C5_NonEmptyStringClassified ==
  (PastEntry /\ req.ticker.type = "string" /\ req.ticker.s # <<>>) =>
     Len(knownCryptoTickers) = 25 /\ path = ClaimedClass

\* a known symbol in lower case with a false hint takes the crypto path
C5_Witness ==
  /\ PastEntry
  /\ req.ticker = Str(<<"b", "t", "c">>)
  /\ req.isCrypto = "false"
  /\ path = "crypto"

\* the adapters C6 names (the analyst call is nested in the quote's block)
ConcurrentAdapters ==
  {"overview", "quote", "insider", "social", "news", "cquote"}

\* C6: no adapter call of a request is issued after another adapter call of
\* the request has settled
C6_AdaptersIssuedConcurrently ==
  \A i \in 1..Len(trace), j \in 1..Len(trace) :
    ~ /\ i < j
      /\ trace[i].ev = "settle" /\ trace[i].what \in ConcurrentAdapters
      /\ trace[j].ev = "issue" /\ trace[j].what \in ConcurrentAdapters
      /\ trace[i].what # trace[j].what

LaterStageStep(e) ==
  \/ e \in {Ev("stage", "score"), Ev("stage", "prompt")}
  \/ e.ev = "issue" /\ e.what \in LlmCalls

AdapterIssue(e) == e.ev = "issue" /\ e.what \in AdapterCalls

\* every adapter call issued before position j has settled before it
SettledBefore(j) ==
  \A i \in 1..(j - 1) :
    AdapterIssue(trace[i])
    => \E k \in (i + 1)..(j - 1) : trace[k] = Ev("settle", trace[i].what)

\* C7: scoring starts with no adapter call in flight and none is issued
\* afterwards; the prompt is built after the scores exist, and a completion
\* call is issued after its prompt
C7_StagesInOrder ==
  /\ \A j \in 1..Len(trace) :
       LaterStageStep(trace[j])
       => /\ SettledBefore(j)
          /\ \A k \in (j + 1)..Len(trace) : ~AdapterIssue(trace[k])
  /\ AggregationOver => \A c \in AdapterCalls : call[c] # "inflight"
  /\ \A j \in 1..Len(trace) :
       trace[j] = Ev("stage", "prompt")
       => \E i \in 1..(j - 1) : trace[i] = Ev("stage", "score")
  /\ \A j \in 1..Len(trace) :
       (trace[j].ev = "issue" /\ trace[j].what \in LlmCalls)
       => \E i \in 1..(j - 1) : trace[i] = Ev("stage", "prompt")
  /\ Happened(Ev("stage", "prompt")) =>
       IF path = "equity" /\ variant = "server"
         THEN sentiment.present
         ELSE score.present

\* a whole run of part_000: quote and news delivered, then score, prompt,
\* completion
C7_Witness ==
  /\ variant = "part_000" /\ path = "equity"
  /\ call["price"] = "ok" /\ call["news"] = "ok"
  /\ call["llm"] = "ok"
  /\ score.present /\ sentiment.present
  /\ Len(res) = 1 /\ res[1].body = "analysis"

\* C8: the two completion calls of the dual mode are issued together, before
\* Promise.all is awaited; the bodies are decoded and the analysis is sent
\* only when both fetches are fulfilled, and has both narratives
C8_DualBothBeforeResponse ==
  /\ (call["llm_simplified"] = "idle") <=> (call["llm_detailed"] = "idle")
  /\ \A j \in 1..Len(trace) :
       trace[j] = Ev("settle", "Promise.all")
       => \A c \in DualCalls : \E i \in 1..(j - 1) : trace[i] = Ev("issue", c)
  /\ pc = "decode" => \A c \in DualCalls : call[c] = "resolved"
  /\ (variant = "server" /\ path = "equity" /\ Len(res) = 1
      /\ res[1].body = "analysis")
     => /\ \A c \in DualCalls : call[c] \in {"ok", "nodata"}
        /\ DOMAIN ai = {"simplified", "detailed"}
        /\ DOMAIN sections = {"simplified", "detailed"}

C8_Witness ==
  /\ variant = "server" /\ path = "equity"
  /\ Len(res) = 1 /\ res[1].body = "analysis"
  /\ \A c \in DualCalls : call[c] = "ok"
  /\ Len(sections.simplified) = 3 /\ Len(sections.detailed) = 3

\* C9: without its key a provider is never called and its slice is absent:
\* the news key, the Alpha Vantage key, the OpenRouter key
C9_NoCallWithoutKey ==
  /\ ~env.NEWS_KEY =>
       /\ call["news"] = "idle" /\ call["news2"] = "idle"
       /\ Len(bundle.news) = 0
  /\ ~env.PRICE_KEY =>
       /\ call["overview"] = "idle" /\ call["price"] = "idle"
       /\ ~bundle.overview.present
       /\ path = "equity" => ~bundle.price.present
  /\ ~env.OPENROUTER_KEY => \A c \in LlmCalls : call[c] = "idle"

\* C10: messages of which none carries a Bullish or Bearish label leave the
\* social-sentiment slice absent
C10_NoLabelNoSocialSlice ==
  (/\ got.of = "social"
   /\ got.p.kind = "json"
   /\ got.p.hasMessages
   /\ Len(got.p.messages) > 0
   /\ \A i \in 1..Len(Take(got.p.messages, 20)) : got.p.messages[i] = "none")
  => ~bundle.socialSentiment.present

----------------------------------------------------------------------------
(* Insider filings: the feed the block received and the list it surfaced *)

InsiderSettled == got.of = "insider" /\ got.p.kind = "feed"

Surfaced == IF bundle.insiderData.present THEN bundle.insiderData.transactions ELSE <<>>

SaleToken(title) ==
  \E w \in { <<"s","a","l","e">>, <<"s","e","l","l">>, <<"d","i","s","p","o","s","e","d">> } :
    includes(toLowerCase(title), w)

PurchaseToken(title) ==
  \E w \in { <<"p","u","r","c","h","a","s","e">>, <<"b","u","y">>, <<"a","c","q","u","i","r","e","d">> } :
    includes(toLowerCase(title), w)

\* the type the three-way rule gives a title
TypeByRule(title) ==
  IF SaleToken(title) /\ ~PurchaseToken(title) THEN "SELL"
  ELSE IF PurchaseToken(title) /\ ~SaleToken(title) THEN "BUY"
  ELSE "OTHER"

\* C11: every filing is typed SELL exactly when its title holds a sale token
\* and no purchase token, BUY exactly when it holds a purchase token and no
\* sale token, and OTHER otherwise, a title holding both included: the
\* surfaced list is made of the recent filings the rule types BUY or SELL,
\* each with the rule's type.
C11_TypeByTokens ==
  InsiderSettled =>
    LET recent == SelectSeq(got.p.entries, LAMBDA e : e.daysAgo <= 90)
        typed == SelectSeq(recent, LAMBDA e : TypeByRule(e.title) # "OTHER")
    IN /\ Len(Surfaced) = Len(Take(typed, 5))
       /\ \A i \in 1..Len(Surfaced) :
            /\ Surfaced[i].title = typed[i].title
            /\ Surfaced[i].type = TypeByRule(typed[i].title)

NewestFirst(list) ==
  \A i \in 1..Len(list), j \in 1..Len(list) :
    i < j => list[i].daysAgo <= list[j].daysAgo

\* C12: the surfaced list has at most 5 entries, all BUY or SELL, all dated
\* within 90 days, ordered newest first; the filing "CEO reports sale of
\* shares" of 10 days ago is surfaced as CEO / SELL and "Director 10b5-1
\* plan adopted" is not surfaced.
C12_SurfacedList ==
  InsiderSettled =>
    /\ Len(Surfaced) <= 5
    /\ \A i \in 1..Len(Surfaced) :
         /\ Surfaced[i].type \in {"BUY", "SELL"}
         /\ Surfaced[i].daysAgo <= 90
         /\ Surfaced[i].title # <<"D","i","r","e","c","t","o","r"," ","1","0","b","5","-","1"," ","p","l","a","n"," ","a","d","o","p","t","e","d">>
    /\ NewestFirst(Surfaced)
    /\ Len(got.p.entries) > 0
         /\ got.p.entries[1].title = <<"C","E","O"," ","r","e","p","o","r","t","s"," ","s","a","l","e"," ","o","f"," ","s","h","a","r","e","s">>
         /\ got.p.entries[1].daysAgo = 10
       => /\ Surfaced[1].role = "CEO"
          /\ Surfaced[1].type = "SELL"
          /\ Surfaced[1].daysAgo = 10

----------------------------------------------------------------------------
(* News: the payload the block received and the list it handed on *)

EquityNewsSettled ==
  path = "equity" /\ got.of \in {"news", "news2"} /\ got.p.kind = "json"

CryptoNewsSettled ==
  path = "crypto" /\ got.of = "news" /\ got.p.kind = "json"

FallbackRan == call["news2"] # "idle"

Titles(list) == [i \in 1..Len(list) |-> list[i].title]

\* C13: the news list handed to scoring, prompt building and presentation
\* never has more than 3 items, on the equity path and on the crypto path,
\* whatever the provider returns and whether or not the fallback query ran.
C13_AtMostThreeNews == Len(bundle.news) <= 3

\* the fallback query returned four articles that all pass the filter
C13_Witness ==
  /\ EquityNewsSettled /\ FallbackRan
  /\ Len(got.p.articles) = 4
  /\ Len(relevantArticles(got.p.articles, Ticker)) = 4
  /\ Len(bundle.news) = 3

\* the tokens longer than 3 characters of the company name a ticker
\* resolves to (Apple; AMD Advanced Micro Devices), lower-cased
TokensOver3(ticker) ==
  IF ticker = <<"A","A","P","L">> THEN { <<"a","p","p","l","e">> }
  ELSE IF ticker = <<"A","M","D">>
    THEN { <<"a","d","v","a","n","c","e","d">>, <<"m","i","c","r","o">>, <<"d","e","v","i","c","e","s">> }
  ELSE {}

KeptByRule(a, ticker) ==
  LET title == toLowerCase(a.title)
      text == toLowerCase(a.title \o <<" ">> \o a.description)
  IN /\ \/ includes(title, toLowerCase(ticker))
        \/ \E w \in TokensOver3(ticker) : includes(title, w)
     /\ \E k \in Range(stockKeywords) : includes(text, k)

\* C14: on the equity path an article is kept exactly when its title
\* mentions the ticker (whatever the case) or a token longer than 3
\* characters of the company name, and its title plus description holds a
\* finance keyword; the news list is the first 3 kept articles in provider
\* order.  The crypto path filters nothing.
C14_RelevanceFilter ==
  /\ EquityNewsSettled =>
       Titles(bundle.news) =
         Titles(Take(SelectSeq(got.p.articles, LAMBDA a : KeptByRule(a, Ticker)), 3))
  /\ CryptoNewsSettled =>
       Titles(bundle.news) = Titles(Take(got.p.articles, 3))

\* a payload of which the filter kept some articles and dropped others
C14_Witness ==
  /\ EquityNewsSettled
  /\ Len(bundle.news) > 0
  /\ \E i \in 1..Len(got.p.articles) : ~KeptByRule(got.p.articles[i], Ticker)
  /\ \E i \in 1..Len(got.p.articles) :
       /\ KeptByRule(got.p.articles[i], Ticker)
       /\ ~includes(toLowerCase(got.p.articles[i].title), toLowerCase(Ticker))

\* the filter with its cap, as the block applies it
FilterAndCap(articles, ticker) == Take(relevantArticles(articles, ticker), 3)

Settles(c) == call[c] = "inflight" /\ call'[c] # "inflight"

\* C16: in the news search of either path, whenever the domain-restricted
\* query returns zero articles the broader query is issued next and its
\* articles are the ones used; it is not issued when the first query
\* returned at least one article.
C16_FallbackOnEmpty ==
  [][ /\ Settles("news") /\ got'.p.kind = "json" =>
           (pc' = "news2" <=> Len(got'.p.articles) = 0)
      /\ Settles("news2") /\ got'.p.kind = "json" =>
           Titles(bundle'.news) =
             Titles(Take(relevantArticles(got'.p.articles, Ticker), 3)) ]_vars

----------------------------------------------------------------------------
(* Scoring: the bundle that was scored and the scores computed from it *)

SentimentScored == sentiment.present

\* title + ' ' + description, lower-cased; a news item carries no description
ItemText(item) == toLowerCase(item.title \o <<" ">>)

OccursAt(text, word, i) ==
  /\ i + Len(word) <= Len(text)
  /\ \A j \in 1..Len(word) : text[i + j] = word[j]

\* the occurrences of the words of a list in a text
Occurrences(text, words) ==
  Cardinality({ o \in (1..Len(words)) \X (0..Len(text)) :
                  OccursAt(text, words[o[1]], o[2]) })

RECURSIVE TotalsByRule(_, _, _)
TotalsByRule(news, ticker, i) ==
  IF i > Len(news) THEN [accumulator |-> 0, relevance |-> 0]
  ELSE LET rest == TotalsByRule(news, ticker, i + 1)
           text == ItemText(news[i])
       IN IF includes(text, toLowerCase(ticker))
            THEN [accumulator |->
                    rest.accumulator
                    + 15 * Occurrences(text, strongPositive)
                    - 15 * Occurrences(text, strongNegative)
                    + 5 * Occurrences(text, moderatePositive)
                    - 5 * Occurrences(text, moderateNegative),
                  relevance |-> rest.relevance + 20]
            ELSE [accumulator |-> rest.accumulator,
                  relevance |-> rest.relevance - 10]

\* clamp(0, 100, round(50 + accumulator + relevance / articleCount))
ScoreByRule(news, ticker) ==
  LET n == Len(news)
      totals == TotalsByRule(news, ticker, 1)
  IN Clamp(0, 100, MathRound((50 + totals.accumulator) * n + totals.relevance, n))

SurgesOnBeat == << [title |-> <<"A","p","p","l","e"," ","s","u","r","g","e","s"," ","o","n"," ","s","t","r","o","n","g"," ","e","a","r","n","i","n","g","s"," ","b","e","a","t">>] >>

\* C17: over a non-empty list, each article mentioning the ticker adds 20
\* to relevance and, for each occurrence of a term, +15 (strong positive),
\* -15 (strong negative), +5 (moderate positive) or -5 (moderate negative)
\* to the accumulator; each other article takes 10 from relevance; the
\* score is clamp(0, 100, round(50 + accumulator + relevance / count)).
\* The single article "Apple surges on strong earnings beat" scored for
\* AAPL gets 100, label Positive.
C17_SentimentAccumulation ==
  SentimentScored /\ Len(bundle.news) > 0 =>
    /\ sentiment.score = ScoreByRule(bundle.news, Ticker)
    /\ bundle.news = SurgesOnBeat /\ Ticker = <<"A","A","P","L">> =>
         sentiment.score = 100 /\ sentiment.label = "Positive"

\* C18: scoring an empty news list gives score 50 and label Neutral.
C18_NeutralDefault ==
  SentimentScored /\ Len(bundle.news) = 0 =>
    sentiment.score = 50 /\ sentiment.label = "Neutral"

\* an empty list was scored
C18_Witness == SentimentScored /\ Len(bundle.news) = 0 /\ sentiment.score = 50

\* a score was computed from a quote whose percent change is a number
ScoredWithPct(p) ==
  /\ path = p
  /\ score.present
  /\ bundle.price.present
  /\ ~bundle.price.changePct.null /\ ~bundle.price.changePct.nan

\* the percent change, in hundredths of a percent
PctH == bundle.price.changePct.h

BonusByRule(n) == IF n >= 3 THEN 15 ELSE IF n >= 2 THEN 10 ELSE IF n >= 1 THEN 5 ELSE 0

EightBands(h) ==
  IF h > 1000 THEN 20 ELSE IF h > 500 THEN 15 ELSE IF h > 200 THEN 10
  ELSE IF h > 0 THEN 5 ELSE IF h > -200 THEN -5 ELSE IF h > -500 THEN -10
  ELSE IF h > -1000 THEN -15 ELSE -20

\* C19: the equity interest score is clamp(0, 100, round(50 + ladder(pct)
\* + bonus(n) + (s - 50) / 5)) with the 8-band ladder, the news-volume
\* bonus and one rounding at the end; pct = 12, n = 2, s = 70 gives 84.
C19_EquityInterestScore ==
  ScoredWithPct("equity") =>
    /\ score.value =
         Clamp(0, 100,
               MathRound(5 * (50 + EightBands(PctH) + BonusByRule(Len(bundle.news)))
                         + (sentiment.score - 50), 5))
    /\ PctH = 1200 /\ Len(bundle.news) = 2 /\ sentiment.score = 70 =>
         score.value = 84

\* pct = 12, n = 2, s = 70 was scored
C19_Witness ==
  /\ ScoredWithPct("equity")
  /\ PctH = 1200 /\ Len(bundle.news) = 2 /\ sentiment.score = 70
  /\ score.value = 84

TenBands(h) ==
  IF h > 2000 THEN 25 ELSE IF h > 1000 THEN 20 ELSE IF h > 500 THEN 15
  ELSE IF h > 200 THEN 10 ELSE IF h > 0 THEN 5 ELSE IF h > -200 THEN -5
  ELSE IF h > -500 THEN -10 ELSE IF h > -1000 THEN -15
  ELSE IF h > -2000 THEN -20 ELSE -25

\* C20: the crypto interest score is 50 plus the 10-band ladder value plus
\* the news-volume bonus, clamped to [0, 100]; no news-sentiment
\* adjustment is applied on the crypto path.
C20_CryptoInterestScore ==
  /\ ScoredWithPct("crypto") =>
       score.value =
         Clamp(0, 100, 50 + TenBands(PctH) + BonusByRule(Len(bundle.news)))
  /\ path = "crypto" => ~sentiment.present

\* a change above 20 percent with three articles of bad news was scored
C20_Witness ==
  /\ ScoredWithPct("crypto")
  /\ PctH > 2000 /\ Len(bundle.news) = 3
  /\ ScoreByRule(bundle.news, <<"A","A","P","L">>) < 50
  /\ score.value = 90

----------------------------------------------------------------------------
(* Section parser: the narrative texts that were parsed and their sections *)

\* the fixed titles of a narrative
ExpectedTitles(k) ==
  CASE k = "llm" -> MarketTitles
    [] k = "simplified" -> SimplifiedTitles
    [] k = "detailed" -> DetailedTitles

NonBlank(q) == \E i \in 1..Len(q) : q[i] \notin {" ", "\n", "\t"}

NonBlankParts(text) == SelectSeq(Split(text, 1), NonBlank)

PatternFindsNone(text) == \A i \in 1..Len(text) : TitleEnd(text, i) = 0

FourWords == <<"a","1","."," ","a","1","."," ","a","1","."," ","a">>

\* C21: when the "digit. UPPERCASE" pattern finds no section, the text is
\* split on the numeric prefix; with at least as many non-blank parts as
\* expected titles the sections are the expected titles in order, each
\* with the part of its position, otherwise there is no section; the
\* parser returns for every text (the response is the analysis).
C21_ParserFallback ==
  \A k \in DOMAIN sections :
    /\ res[Len(res)].body = "analysis"
    /\ PatternFindsNone(ai[k]) =>
         LET parts == NonBlankParts(ai[k])
             titles == ExpectedTitles(k)
         IN IF Len(parts) >= Len(titles)
              THEN /\ Len(sections[k]) = Len(titles)
                   /\ \A i \in 1..Len(titles) :
                        /\ sections[k][i].title = titles[i]
                        /\ sections[k][i].content = parts[i]
              ELSE sections[k] = <<>>
    /\ ai[k] = FourWords =>
         /\ Len(sections[k]) = Len(ExpectedTitles(k))
         /\ \A i \in 1..Len(sections[k]) : sections[k][i].content = <<"a">>

\* a text without a title line, with a blank part and more non-blank parts
\* than titles, parsed by the fallback
C21_Witness ==
  \E k \in DOMAIN sections :
    /\ PatternFindsNone(ai[k])
    /\ Len(Split(ai[k], 1)) > Len(NonBlankParts(ai[k]))
    /\ Len(NonBlankParts(ai[k])) > Len(sections[k])
    /\ Len(sections[k]) = 3

----------------------------------------------------------------------------
(* Authentication *)

TokenOfUser == \E u \in users : u.auth_token = req.token

\* nothing of the pipeline has happened
PipelineUntouched ==
  /\ path = "none"
  /\ trace = <<>>
  /\ \A c \in Calls : call[c] = "idle"
  /\ ~sentiment.present /\ ~score.present
  /\ ai = <<>> /\ sections = <<>>

AuthErrors ==
  { [status |-> 401, body |-> "Authentication required"],
    [status |-> 401, body |-> "Invalid token"],
    [status |-> 500, body |-> "Authentication failed"] }

\* C22: the pipeline (classification, adapter calls, scoring, completion
\* call) runs only for a request whose token is that of a stored user; a
\* request without a token or with a token of no user is answered with an
\* authentication error, and no call is ever issued for it.
C22_PipelineBehindAuthentication ==
  /\ pc \notin {"auth", "done"} => TokenOfUser
  /\ ~TokenOfUser =>
       /\ PipelineUntouched
       /\ pc \in {"auth", "done"}
       /\ pc = "done" => Len(res) = 1 /\ res[1] \in AuthErrors
  /\ ~PipelineUntouched => TokenOfUser

\* a request with a token of no user, answered
C22_Witness ==
  /\ req.token # "" /\ ~TokenOfUser
  /\ pc = "done"
  /\ res = << [status |-> 401, body |-> "Invalid token"] >>

\* the roles in priority order, each with its keywords
RolePriority ==
  << [role |-> "CEO", keywords |-> { <<"c","e","o">>, <<"c","h","i","e","f"," ","e","x","e","c","u","t","i","v","e">> }],
     [role |-> "CFO", keywords |-> { <<"c","f","o">>, <<"c","h","i","e","f"," ","f","i","n","a","n","c","i","a","l">> }],
     [role |-> "COO", keywords |-> { <<"c","o","o">>, <<"c","h","i","e","f"," ","o","p","e","r","a","t","i","n","g">> }],
     [role |-> "Director", keywords |-> { <<"d","i","r","e","c","t","o","r">> }],
     [role |-> "President", keywords |-> { <<"p","r","e","s","i","d","e","n","t">> }],
     [role |-> "Officer", keywords |-> { <<"o","f","f","i","c","e","r">> }] >>

RolesMatching(title) ==
  LET lower == toLowerCase(title)
  IN { i \in 1..Len(RolePriority) :
         \E w \in RolePriority[i].keywords : includes(lower, w) }

RoleByRule(title) ==
  LET matching == RolesMatching(title)
  IN IF matching = {} THEN "Insider"
     ELSE RolePriority[CHOOSE i \in matching : \A j \in matching : i <= j].role

\* the recent filings typed BUY or SELL, in feed order
TypedFilings ==
  SelectSeq(got.p.entries,
            LAMBDA e : e.daysAgo <= 90 /\ insiderType(e.title) # "OTHER")

\* C23: the role of a filing is the first match in the priority order CEO
\* (ceo / chief executive) > CFO (cfo / chief financial) > COO (coo / chief
\* operating) > Director > President > Officer, and Insider when no keyword
\* matches; a title matching several keywords gets the highest of them.
C23_RoleByPriority ==
  InsiderSettled =>
    LET typed == TypedFilings
    IN \A i \in 1..Len(Surfaced) : Surfaced[i].role = RoleByRule(typed[i].title)

\* a filing whose title matches several keywords was surfaced
C23_Witness ==
  /\ InsiderSettled
  /\ Len(got.p.entries) = 1
  /\ \E i \in 1..Len(Surfaced) :
       /\ Cardinality(RolesMatching(TypedFilings[i].title)) > 1
       /\ Surfaced[i].role = "CFO"

\* C24: the ticker of an equity request is upper-cased before it is used,
\* so the company-name lookup and the results are those of the upper-case
\* ticker: the news list kept for "aapl" is the one kept for "AAPL".
C24_TickerUpperCased ==
  EquityNewsSettled =>
    Titles(bundle.news) =
      Titles(Take(relevantArticles(got.p.articles, toUpperCase(Ticker)), 3))

----------------------------------------------------------------------------
LabelByTable(s) ==
  IF s >= 70 THEN "Positive" ELSE IF s >= 60 THEN "Slightly Positive"
  ELSE IF s >= 55 THEN "Neutral-Positive" ELSE IF s >= 45 THEN "Neutral"
  ELSE IF s >= 40 THEN "Neutral-Negative"
  ELSE IF s >= 30 THEN "Slightly Negative" ELSE "Negative"

\* C25: for every news list of at most 3 items, the label returned with
\* the sentiment score is the one the threshold table assigns to the
\* returned (rounded) integer score.
C25_LabelMatchesScore ==
  SentimentScored /\ Len(bundle.news) <= 3 =>
    sentiment.label = LabelByTable(sentiment.score)

\* a list of three articles scored exactly on a threshold of the table
C25_Witness ==
  /\ SentimentScored /\ Len(bundle.news) = 3
  /\ sentiment.score \in {70, 60, 55, 45, 40, 30}
  /\ sentiment.label = LabelByTable(sentiment.score)

----------------------------------------------------------------------------
InFlight == {c \in Calls : call[c] = "inflight"}

\* C26: when every call issued by an authenticated /analyze request
\* settles, the request eventually sends its response; and no response is
\* sent over the head of a pending call: a response sent while calls are
\* in flight is sent by the settlement of one of them.
C26_RequestCompletes ==
  /\ (pc = "handler") ~> (pc = "done" /\ Len(res) = 1)
  /\ [][Len(res') > Len(res) /\ InFlight # {} =>
          \E c \in InFlight : call'[c] # "inflight"]_vars

\* an authenticated request answered after its completion call settled
C26_Witness ==
  /\ pc = "done" /\ Len(res) = 1
  /\ \E i \in 1..Len(trace) : trace[i] = Ev("stage", "classify")
  /\ \E i \in 1..Len(trace) : trace[i].ev = "settle"

----------------------------------------------------------------------------
\* C27: on the crypto path the interest score lies in [25, 90] for every
\* percent change and news count, so the clamp to [0, 100] never binds and
\* the level 'Low Market Interest' is never shown.
C27_CryptoScoreRange ==
  path = "crypto" /\ score.present =>
    /\ score.value \in 25..90
    /\ score.level # "Low Market Interest"

\* the lowest crypto score: a fall of 20 percent or more with no news
C27_Witness ==
  /\ ScoredWithPct("crypto")
  /\ PctH <= -2000 /\ Len(bundle.news) = 0
  /\ score.value = 25 /\ score.level = "Below Average Interest"

----------------------------------------------------------------------------
\* the percent changes that are numbers
NumericPcts == {q \in ScorePcts : ~q.null /\ ~q.nan}

\* C28: for a fixed news count and a fixed sentiment score, a larger
\* percent change never yields a smaller interest score, on the equity
\* ladder and on the crypto ladder.
C28_MonotoneInPriceChange ==
  /\ ScoredWithPct("equity") =>
       \A q \in NumericPcts :
         q.h >= PctH =>
           EquityInterestScore(q, bundle.news, sentiment) >= score.value
  /\ ScoredWithPct("crypto") =>
       \A q \in NumericPcts :
         q.h >= PctH => CryptoInterestScore(q, bundle.news) >= score.value

\* a fall of 3 percent was scored, and a rise of 3 percent scores higher
C28_Witness ==
  /\ ScoredWithPct("equity")
  /\ PctH = -300
  /\ EquityInterestScore(Hundredths(300), bundle.news, sentiment) > score.value

----------------------------------------------------------------------------
\* a score was computed without a percent change
ScoredWithoutQuote ==
  score.present /\ (~bundle.price.present \/ bundle.price.changePct.null)

\* the score of a percent change in the band (-2, 0], by the rule
ScoreAtZero ==
  IF path = "crypto" THEN 50 - 5 + BonusByRule(Len(bundle.news))
  ELSE Clamp(0, 100,
             MathRound(5 * (50 - 5 + BonusByRule(Len(bundle.news)))
                       + (sentiment.score - 50), 5))

\* C29: an absent quote is scored as a 0% change, which falls in the first
\* negative band (-5): the score is that of a real quote with 0% change,
\* and with no news it is 45 on the equity and on the crypto path.
C29_AbsentQuoteScoredAsZero ==
  /\ ScoredWithoutQuote => score.value = ScoreAtZero
  /\ score.present /\ ScoredWithPct(path) /\ PctH = 0 => score.value = ScoreAtZero
  /\ (ScoredWithoutQuote \/ (ScoredWithPct(path) /\ PctH = 0))
       /\ Len(bundle.news) = 0 => score.value = 45

\* no quote and no news on the equity path: 45
C29_Witness ==
  /\ path = "equity" /\ score.present
  /\ ~bundle.price.present /\ Len(bundle.news) = 0
  /\ score.value = 45

----------------------------------------------------------------------------
\* the sign-ins that were answered with a user and a token
Answered == {s \in DOMAIN signins : signins[s].pc = "done" /\ signins[s].res.status = 200}

\* C30: after any interleaving of sign-ins there is at most one user row
\* per e-mail address; the token handed out for an address is the one
\* stored at its first sign-in; a sign-in that arrives when the row exists
\* is answered with that token, and changes nothing in the row but
\* last_login.
C30_SignInKeepsIdentity ==
  /\ \A u, v \in users : u.email = v.email => u = v
  /\ \A s \in Answered :
       \E u \in users : /\ u.email = signins[s].email
                         /\ u.auth_token = signins[s].res.token
  /\ \A s \in DOMAIN signins :
       signins[s].late /\ signins[s].email # "" /\ signins[s].pc = "done" =>
         s \in Answered /\ signins[s].row # NoRow
  /\ \A s \in Answered :
       signins[s].row # NoRow =>
         \E u \in users : /\ u.id = signins[s].row.id
                           /\ u.email = signins[s].row.email
                           /\ u.auth_token = signins[s].row.auth_token
                           /\ u.last_login > signins[s].row.last_login

\* a first sign-in stored a row and a later one for the same address was
\* answered with the same token
C30_Witness ==
  \E s, t \in Answered :
    /\ signins[s].row = NoRow /\ signins[t].row # NoRow /\ signins[t].late
    /\ signins[s].email = signins[t].email
    /\ signins[s].res.token = signins[t].res.token

====
